---- MODULE Spec2Model ----
(***************************************************************************)
(* Model of the 101-week contracts worker (worker/index.ts): the form      *)
(* handler, the admin lookup, and the key-value / blob stores they act on. *)
(*                                                                         *)
(* A JavaScript string is a sequence of one-character strings.  A JSON     *)
(* value of a text field is a record [t, v]: t = "undef" (absent),         *)
(* "str" (v = the characters) or "num" (a number, v = its digits).         *)
(* A signature field is a record [t, head, len, ws, ok]: the string is     *)
(* head (everything up to and including the first comma, or the whole      *)
(* text) followed by len further characters; ws says that these are all    *)
(* whitespace, ok that they are well-formed base64.                        *)
(***************************************************************************)
EXTENDS Integers, Sequences, FiniteSets, TLC

VARIABLES kv, r2, now, today, req, resp, ops, nreq, retry, race

vars == <<kv, r2, now, today, req, resp, ops, nreq, retry, race>>

---------------------------------------------------------------------------
(* Bounds of the model *)

\* the clock value of the first request, the number of clock ticks after it,
\* and the number of requests of a run
Epoch == 9
MaxClock == 2
MaxReq == 3

\* the largest value of the retries argument of withRetry
MaxRetries == 4

---------------------------------------------------------------------------
(* Characters and strings *)

UpperCase == <<"A","B","C","D","E","F","G","H","I","J","K","L","M",
               "N","O","P","Q","R","S","T","U","V","W","X","Y","Z">>
LowerCase == <<"a","b","c","d","e","f","g","h","i","j","k","l","m",
               "n","o","p","q","r","s","t","u","v","w","x","y","z">>
DigitChar == <<"0","1","2","3","4","5","6","7","8","9">>

Range(s) == {s[i] : i \in DOMAIN s}

\* \s of a JavaScript regular expression and the characters trim() strips
IsSpace(c) == c \in {" ", "\t", "\n", "\r"}

\* String.prototype.toLowerCase, one character
LowerChar(c) ==
    IF \E i \in DOMAIN UpperCase : UpperCase[i] = c
    THEN LowerCase[CHOOSE i \in DOMAIN UpperCase : UpperCase[i] = c]
    ELSE c

\* String.prototype.trim
RECURSIVE TrimLeft(_)
TrimLeft(s) == IF s # <<>> /\ IsSpace(Head(s)) THEN TrimLeft(Tail(s)) ELSE s

RECURSIVE TrimRight(_)
TrimRight(s) ==
    IF s # <<>> /\ IsSpace(s[Len(s)])
    THEN TrimRight(SubSeq(s, 1, Len(s) - 1))
    ELSE s

Trim(s) == TrimRight(TrimLeft(s))

ToLowerCase(s) == [i \in DOMAIN s |-> LowerChar(s[i])]

\* .replace(/[^a-z0-9]/g, "_")
ReplaceNonAlnum(s) ==
    [i \in DOMAIN s |->
        IF s[i] \in Range(LowerCase) \cup Range(DigitChar) THEN s[i] ELSE "_"]

sanitize_noLower(str) == ReplaceNonAlnum(Trim(str))

sanitize(str) == ReplaceNonAlnum(ToLowerCase(Trim(str)))

\* String(n) of a non-negative integer: its decimal digits
RECURSIVE NumToString(_)
NumToString(n) ==
    IF n < 10 THEN <<DigitChar[n + 1]>>
    ELSE NumToString(n \div 10) \o <<DigitChar[(n % 10) + 1]>>

StartsWith(s, p) == Len(p) <= Len(s) /\ SubSeq(s, 1, Len(p)) = p

emailRegex_noDot(s) ==
    \E i \in DOMAIN s :
        /\ 1 < i /\ i < Len(s)
        /\ s[i] = "@"
        /\ \A k \in DOMAIN s : k # i => ~IsSpace(s[k]) /\ s[k] # "@"

\* /^[^\s@]+@[^\s@]+\.[^\s@]+$/.test(s)
emailRegex(s) ==
    \E i \in DOMAIN s : \E j \in DOMAIN s :
        /\ 1 < i /\ i + 1 < j /\ j < Len(s)
        /\ s[i] = "@"
        /\ s[j] = "."
        /\ \A k \in DOMAIN s : k # i => ~IsSpace(s[k]) /\ s[k] # "@"

\* s.split(/\s+/) of a trimmed string: the maximal runs of non-space characters
\* (a single empty part for the empty string)
RECURSIVE SplitSpaces(_)
SplitSpaces(s) ==
    IF \A i \in DOMAIN s : ~IsSpace(s[i]) THEN <<s>>
    ELSE LET i == CHOOSE k \in DOMAIN s :
                      IsSpace(s[k]) /\ \A m \in 1..(k - 1) : ~IsSpace(s[m])
         IN  <<SubSeq(s, 1, i - 1)>> \o SplitSpaces(TrimLeft(SubSeq(s, i, Len(s))))

\* the order of the keys in a KV listing (by code unit; the characters of keys)
CharOrder == <<"/", "0","1","2","3","4","5","6","7","8","9",
               "E", "S", "_",
               "a","b","c","d","e","f","g","h","i","j","k","l","m",
               "n","o","p","q","r","s","t","u","v","w","x","y","z">>

CharRank(c) ==
    IF \E i \in DOMAIN CharOrder : CharOrder[i] = c
    THEN CHOOSE i \in DOMAIN CharOrder : CharOrder[i] = c
    ELSE 0

RECURSIVE KeyLess(_, _)
KeyLess(a, b) ==
    IF a = <<>> THEN b # <<>>
    ELSE IF b = <<>> THEN FALSE
    ELSE IF Head(a) = Head(b) THEN KeyLess(Tail(a), Tail(b))
    ELSE CharRank(Head(a)) < CharRank(Head(b))

---------------------------------------------------------------------------
(* JSON values of a submission *)

Undef == [t |-> "undef", v |-> <<>>]
Str(s) == [t |-> "str", v |-> s]
Num(d) == [t |-> "num", v |-> d]

NoSig == [t |-> "undef", head |-> <<>>, len |-> 0, ws |-> FALSE, ok |-> FALSE]
Sig(h, n, w, o) == [t |-> "str", head |-> h, len |-> n, ws |-> w, ok |-> o]

\* !x of JavaScript
Falsy(x) ==
    \/ x.t = "undef"
    \/ x.t = "str" /\ x.v = <<>>
    \/ x.t = "num" /\ x.v = <<"0">>

SigFalsy(g) == g.t = "undef" \/ (g.head = <<>> /\ g.len = 0)

TextMissing_noTrim(x) == Falsy(x)

\* !submission[field] || (typeof submission[field] === "string" &&
\*                        submission[field].toString().trim() === "")
TextMissing(x) == Falsy(x) \/ (x.t = "str" /\ Trim(x.v) = <<>>)

SigMissing(g) ==
    SigFalsy(g) \/ (g.t = "str" /\ Trim(g.head) = <<>> /\ (g.len = 0 \/ g.ws))

requiredFields ==
    <<"preferredLanguage", "firstName", "lastName", "email", "phone",
      "languages", "program", "rsg1", "emergencyName", "emergencyPhone">>

participantFields == <<"fullNameParticipant", "signatureParticipant">>
parentFields == <<"fullNameParent", "signatureParent">>

SignatureFields == {"signatureParticipant", "signatureParent"}

REQUIRE_PARTICIPANT_SIGNATURE_FOR_MINORS == TRUE

DATA_IMAGE == <<"d","a","t","a",":","i","m","a","g","e","/">>
DATA_IMAGE_PNG == DATA_IMAGE \o <<"p","n","g">>
PNG_PREFIX == DATA_IMAGE_PNG \o <<";","b","a","s","e","6","4",",">>
JPEG_PREFIX == DATA_IMAGE \o <<"j","p","e","g",";","b","a","s","e","6","4",",">>

ALLOWED_IMAGE_PREFIXES == <<PNG_PREFIX, JPEG_PREFIX>>

RSG_OPT_IN == {<<"E","S","S">>}

MAX_IMAGE_SIZE == 1048576

MAX_RESULTS == 50

FieldMissing(sub, f) ==
    IF f \in SignatureFields THEN SigMissing(sub[f]) ELSE TextMissing(sub[f])

\* the first field of the list that the loop rejects, "" when it rejects none
FirstMissing(sub, fields) ==
    IF \E i \in DOMAIN fields : FieldMissing(sub, fields[i])
    THEN fields[CHOOSE i \in DOMAIN fields :
                    /\ FieldMissing(sub, fields[i])
                    /\ \A j \in 1..(i - 1) : ~FieldMissing(sub, fields[j])]
    ELSE ""

\* a > b for two dates <<year, month, day>> written YYYY-MM-DD
DateGreater_yearOnly(a, b) == a[1] > b[1]

\* a > b for two YYYY-MM-DD strings, given as <<year, month, day>>
DateGreater(a, b) ==
    \/ a[1] > b[1]
    \/ a[1] = b[1] /\ a[2] > b[2]
    \/ a[1] = b[1] /\ a[2] = b[2] /\ a[3] > b[3]

DobIsString(sub) == sub.dob.t = "str" /\ sub.dob.v # <<>>

Age(birthDate, day) ==
    LET age == day[1] - birthDate[1]
        m == day[2] - birthDate[2]
    IN  IF m < 0 \/ (m = 0 /\ day[3] < birthDate[3]) THEN age - 1 ELSE age

IsAdult(sub, day) ==
    IF DobIsString(sub) THEN Age(sub.dob.v, day) >= 18 ELSE TRUE

\* originalSignature && typeof originalSignature === "string" &&
\*     originalSignature.startsWith("data:image/")
IsDataImage(g) == ~SigFalsy(g) /\ g.t = "str" /\ StartsWith(g.head, DATA_IMAGE)

\* ALLOWED_IMAGE_PREFIXES.some(prefix => originalSignature.startsWith(prefix))
HasAllowedPrefix(g) ==
    \E i \in DOMAIN ALLOWED_IMAGE_PREFIXES :
        StartsWith(g.head, ALLOWED_IMAGE_PREFIXES[i])

IsStoredAsImage_anyString(g) == ~SigFalsy(g) /\ g.t = "str"

IsStoredAsImage(g) == ~SigFalsy(g) /\ g.t = "str" /\ HasAllowedPrefix(g)

\* ALLOWED_IMAGE_PREFIXES.find(prefix => originalSignature.startsWith(prefix))
FoundPrefix(g) ==
    ALLOWED_IMAGE_PREFIXES[CHOOSE i \in DOMAIN ALLOWED_IMAGE_PREFIXES :
        /\ StartsWith(g.head, ALLOWED_IMAGE_PREFIXES[i])
        /\ \A j \in 1..(i - 1) : ~StartsWith(g.head, ALLOWED_IMAGE_PREFIXES[j])]

\* originalSignature.replace(prefix, "").length
Base64Length(g) == Len(g.head) - Len(FoundPrefix(g)) + g.len

TooLarge_floor(n) == (n * 3) \div 4 > MAX_IMAGE_SIZE

TooLarge_unscaled(n) == n > MAX_IMAGE_SIZE

\* (base64Data.length * 3) / 4 > MAX_IMAGE_SIZE, in real arithmetic
TooLarge(n) == n * 3 > MAX_IMAGE_SIZE * 4

Ext(g) == IF StartsWith(g.head, DATA_IMAGE_PNG) THEN <<"p","n","g">> ELSE <<"j","p","e","g">>

---------------------------------------------------------------------------
(* Stored values and the operations on the two stores *)

TextFields ==
    {"preferredLanguage", "firstName", "lastName", "email", "phone",
     "languages", "program", "rsg1", "emergencyName", "emergencyPhone",
     "dob", "fullNameParticipant", "fullNameParent"}

NoSubmission ==
    [f \in TextFields \cup SignatureFields |->
        IF f \in SignatureFields THEN NoSig ELSE Undef]

Null == <<>>

NoRecord ==
    [sub |-> NoSubmission,
     paths |-> [signatureParticipant |-> Null, signatureParent |-> Null]]

\* a KV value that is a key (an index entry), a KV value that is the JSON text
\* of a record, and the content of a blob
KeyValue(k) == [kind |-> "key", key |-> k, data |-> NoRecord]
JsonValue(d) == [kind |-> "json", key |-> Null, data |-> d]
BlobValue == [kind |-> "blob", key |-> Null, data |-> NoRecord]

EmptyStore == [k \in {} |-> BlobValue]

KvPut(k, v) == [store |-> "kv", op |-> "put", key |-> k, val |-> v]
KvDelete(k) == [store |-> "kv", op |-> "delete", key |-> k, val |-> BlobValue]
R2Put(k) == [store |-> "r2", op |-> "put", key |-> k, val |-> BlobValue]

ApplyOp(store, name, o) ==
    IF o.store # name THEN store
    ELSE IF o.op = "put"
         THEN [k \in DOMAIN store \cup {o.key} |->
                  IF k = o.key THEN o.val ELSE store[k]]
         ELSE [k \in DOMAIN store \ {o.key} |-> store[k]]

\* the store after the operations of a request, in the order they were made
RECURSIVE ApplyOps(_, _, _)
ApplyOps(store, name, os) ==
    IF os = <<>> THEN store
    ELSE ApplyOps(ApplyOp(store, name, Head(os)), name, Tail(os))

---------------------------------------------------------------------------
(* handleFormPost *)

Response(st, b, i, rs) == [status |-> st, body |-> b, id |-> i, results |-> rs]

Reject(b, os) == [resp |-> Response(400, b, Null, <<>>), ops |-> os]

Underscore == <<"_">>

\* `${rsg}_${firstName}_${lastName}_${timestamp}`
MainKey(rsg, firstName, lastName, timestamp) ==
    rsg \o Underscore \o firstName \o Underscore \o lastName
        \o Underscore \o NumToString(timestamp)

\* `${rsg}_email_${email}_${timestamp}`
EmailIndexKey(rsg, email, timestamp) ==
    rsg \o <<"_","e","m","a","i","l","_">> \o email
        \o Underscore \o NumToString(timestamp)

\* `${rsg}/${firstName}_${lastName}_${timestamp}_participant.${ext}`
SignaturePath(rsg, firstName, lastName, timestamp, who, ext) ==
    rsg \o <<"/">> \o firstName \o Underscore \o lastName \o Underscore
        \o NumToString(timestamp) \o Underscore \o who \o <<".">> \o ext

PARTICIPANT == <<"p","a","r","t","i","c","i","p","a","n","t">>
PARENT == <<"p","a","r","e","n","t">>

\* the fields the second loop checks
SignerFields(isAdult) ==
    IF isAdult \/ (~isAdult /\ REQUIRE_PARTICIPANT_SIGNATURE_FOR_MINORS)
    THEN participantFields
    ELSE parentFields

RsgRejected_lowerCase(rsg) ==
    Falsy(rsg) \/ rsg.t # "str" \/ rsg.v \notin {ToLowerCase(r) : r \in RSG_OPT_IN}

\* !rsg || !RSG_OPT_IN.includes(rsg)
RsgRejected(rsg) == Falsy(rsg) \/ rsg.t # "str" \/ rsg.v \notin RSG_OPT_IN

\* the answer of the checks made before the first store operation,
\* <<>> when they all pass
Validate(sub, day) ==
    LET missing == FirstMissing(sub, requiredFields)
        missingSigner == FirstMissing(sub, SignerFields(IsAdult(sub, day)))
    IN  IF missing # "" THEN <<"Missing required field: ", missing>>
        ELSE IF sub.email.t = "str" /\ ~emailRegex(sub.email.v)
        THEN <<"Invalid email format">>
        ELSE IF DobIsString(sub) /\ DateGreater(sub.dob.v, day)
        THEN <<"Date of birth cannot be in the future">>
        ELSE IF missingSigner # ""
        THEN <<"Missing required field: ", missingSigner>>
        ELSE IF RsgRejected(sub.rsg1)
        THEN <<"Invalid or not opted-in RSG">>
        ELSE IF sub.firstName.t # "str" \/ sub.lastName.t # "str"
                \/ sub.email.t # "str"
        THEN <<"Bad Request: ", "str.trim is not a function">>
        ELSE <<>>

\* the size check and the upload of one signature: the operations made and
\* the answer that ends the request, <<>> when it goes on
Upload(g, path, tooLarge) ==
    IF path # Null /\ g.t = "str" /\ HasAllowedPrefix(g)
    THEN IF TooLarge(Base64Length(g))
         THEN [ops |-> <<>>, body |-> <<tooLarge>>]
         ELSE IF ~g.ok
         THEN [ops |-> <<>>,
               body |-> <<"Bad Request: ", "Invalid character">>]
         ELSE [ops |-> <<R2Put(path)>>, body |-> <<>>]
    ELSE [ops |-> <<>>, body |-> <<>>]

\* the part of the handler that follows the RSG check
Store(sub, timestamp) ==
    LET rsg == sub.rsg1.v
        firstName == sanitize(sub.firstName.v)
        lastName == sanitize(sub.lastName.v)
        email == sanitize(sub.email.v)
        kvKey == MainKey(rsg, firstName, lastName, timestamp)
        emailIndexKey == EmailIndexKey(rsg, email, timestamp)
        putIndex == <<KvPut(emailIndexKey, KeyValue(kvKey))>>
        gPart == sub.signatureParticipant
        gPar == sub.signatureParent
        pathPart ==
            IF IsStoredAsImage(gPart)
            THEN SignaturePath(rsg, firstName, lastName, timestamp,
                               PARTICIPANT, Ext(gPart))
            ELSE Null
        pathPar ==
            IF IsStoredAsImage(gPar)
            THEN SignaturePath(rsg, firstName, lastName, timestamp,
                               PARENT, Ext(gPar))
            ELSE Null
        stored ==
            [sub EXCEPT
                !.signatureParticipant =
                    IF pathPart # Null THEN NoSig ELSE @,
                !.signatureParent =
                    IF pathPar # Null THEN NoSig ELSE @]
        record ==
            [sub |-> stored,
             paths |-> [signatureParticipant |-> pathPart,
                        signatureParent |-> pathPar]]
        putRecord == putIndex \o <<KvPut(kvKey, JsonValue(record))>>
        upPart == Upload(gPart, pathPart,
                         "Participant signature image too large")
        upPar == Upload(gPar, pathPar, "Parent signature image too large")
    IN  IF IsDataImage(gPart) /\ ~HasAllowedPrefix(gPart)
        THEN Reject(<<"Participant signature must be PNG or JPEG">>, putIndex)
        ELSE IF IsDataImage(gPar) /\ ~HasAllowedPrefix(gPar)
        THEN Reject(<<"Parent signature must be PNG or JPEG">>, putIndex)
        ELSE IF upPart.body # <<>>
        THEN Reject(upPart.body, putRecord)
        ELSE IF upPar.body # <<>>
        THEN Reject(upPar.body, putRecord \o upPart.ops)
        ELSE [resp |-> Response(200, <<"ok">>, kvKey, <<>>),
              ops |-> putRecord \o upPart.ops \o upPar.ops]

\* a request body that request.json() cannot parse, as its text (the empty
\* text for a request without a body); a body that parses is the record of
\* its fields
RawBody(text) == [raw |-> text]

ParseFails(body) == "raw" \in DOMAIN body

\* the message of the SyntaxError of JSON.parse
JsonError(text) ==
    IF text = <<>> THEN "Unexpected end of JSON input"
    ELSE "Unexpected token"

\* the catch clause of the handler for a body that does not parse
Unparseable_500(body) ==
    [resp |-> Response(500, <<"Internal Server Error">>, Null, <<>>),
     ops |-> <<>>]

Unparseable(body) == Reject(<<"Bad Request: ", JsonError(body.raw)>>, <<>>)

\* the answer and the store operations of POST /form-handler for the body
\* sub, at clock value timestamp on the day `day`
handleFormPost(sub, timestamp, day) ==
    IF ParseFails(sub) THEN Unparseable(sub)
    ELSE LET early == Validate(sub, day)
         IN  IF early # <<>> THEN Reject(early, <<>>)
             ELSE Store(sub, timestamp)

---------------------------------------------------------------------------
(* handleLookup *)

KeysWithPrefix(store, prefix) == {k \in DOMAIN store : StartsWith(k, prefix)}

RECURSIVE SortKeys(_)
SortKeys(S) ==
    IF S = {} THEN <<>>
    ELSE LET first == CHOOSE k \in S : \A o \in S \ {k} : KeyLess(k, o)
         IN  <<first>> \o SortKeys(S \ {first})

\* env._101WEEK_CONTRACTS_KV.list({ prefix }): the names, in key order
List(store, prefix) == SortKeys(KeysWithPrefix(store, prefix))

\* get(mainKey) finds a value: mainKey is the text read from an index entry
\* (no key of the store is the JSON text of a record)
MainRecordFound(store, mainKey) ==
    mainKey.kind = "key" /\ mainKey.key \in DOMAIN store

\* requiredFields.every(field => field in data)
isValidLookupData(data) ==
    \A i \in DOMAIN requiredFields : data.sub[requiredFields[i]].t # "undef"

Take(s, n) == SubSeq(s, 1, IF Len(s) < n THEN Len(s) ELSE n)

RECURSIVE Compact(_)
Compact(rs) ==
    IF rs = <<>> THEN <<>>
    ELSE IF Head(rs).found THEN <<Head(rs).entry>> \o Compact(Tail(rs))
    ELSE Compact(Tail(rs))

fetchValidRecords(keys, store) ==
    LET sliced == Take(keys, MAX_RESULTS)
        got == [i \in DOMAIN sliced |->
                   LET found == /\ sliced[i] \in DOMAIN store
                                /\ store[sliced[i]].kind = "json"
                                /\ isValidLookupData(store[sliced[i]].data)
                   IN  [found |-> found,
                        entry |-> [key |-> sliced[i],
                                   data |-> IF found
                                            THEN store[sliced[i]].data
                                            ELSE NoRecord]]]
    IN  Compact(got)

RECURSIVE OrphanDeletes(_, _)
OrphanDeletes(listed, store) ==
    IF listed = <<>> THEN <<>>
    ELSE (IF MainRecordFound(store, store[Head(listed)])
          THEN <<>>
          ELSE <<KvDelete(Head(listed))>>)
         \o OrphanDeletes(Tail(listed), store)

RECURSIVE ValidMainKeys(_, _)
ValidMainKeys(listed, store) ==
    IF listed = <<>> THEN <<>>
    ELSE (IF MainRecordFound(store, store[Head(listed)])
          THEN <<store[Head(listed)].key>>
          ELSE <<>>)
         \o ValidMainKeys(Tail(listed), store)

EMAIL_INFIX == <<"_","e","m","a","i","l","_">>

\* the answer and the store operations of GET /lookup?rsg=..&input=..
handleLookup(rsg, input, store) ==
    IF Falsy(input) \/ Falsy(rsg)
    THEN [resp |-> Response(400,
                      <<"Missing 'rsg' or 'input' query parameter">>,
                      Null, <<>>),
          ops |-> <<>>]
    ELSE IF emailRegex(input.v)
    THEN LET normalized == sanitize(input.v)
             listed == List(store,
                            rsg.v \o EMAIL_INFIX \o normalized \o Underscore)
             deletes == OrphanDeletes(listed, store)
             after == ApplyOps(store, "kv", deletes)
         IN  [resp |-> Response(200, <<"results">>, Null,
                          fetchValidRecords(ValidMainKeys(listed, store),
                                            after)),
              ops |-> deletes]
    ELSE LET parts == SplitSpaces(Trim(input.v))
         IN  IF Len(parts) # 2
             THEN [resp |-> Response(400,
                              <<"Input must be a valid email or full name">>,
                              Null, <<>>),
                   ops |-> <<>>]
             ELSE LET firstName == sanitize(parts[1])
                      lastName == sanitize(parts[2])
                      normalized == rsg.v \o Underscore \o firstName
                                      \o Underscore \o lastName \o Underscore
                  IN  [resp |-> Response(200, <<"results">>, Null,
                                   fetchValidRecords(List(store, normalized),
                                                     store)),
                       ops |-> <<>>]

---------------------------------------------------------------------------
(* POST /migrate-keys: the sweep from the keys first_last_email_timestamp *)
(* to first_last_timestamp and email_<email>_timestamp                    *)

R2Delete(k) == [store |-> "r2", op |-> "delete", key |-> k, val |-> BlobValue]

\* url.searchParams.get("mode") || "dry-run"; "" is the absent parameter
ModeOf(mode) == IF mode = "" THEN "dry-run" ELSE mode

\* the store call `call` with the argument key throws during the request
Throws(fails, call, key) == <<call, key>> \in fails

\* a stored string is truthy: it is not the empty string
Truthy(v) == ~(v.kind = "key" /\ v.key = <<>>)

IsDigit(c) == \E n \in 1..10 : c = DigitChar[n]

IsAlnum(c) == IsDigit(c) \/ \E n \in 1..26 : c \in {LowerCase[n], UpperCase[n]}

EndsWith(s, p) ==
    Len(p) <= Len(s) /\ SubSeq(s, Len(s) - Len(p) + 1, Len(s)) = p

TIMESTAMP_DIGITS == 13

\* oldKey.match(/^([a-z0-9]+)_([a-z0-9]+)_([a-z0-9_]+)_(\d{13})$/i)
keyRegex(key) ==
    LET n == Len(key)
        us == {i \in 1..n : key[i] = "_"}
        i1 == CHOOSE i \in us : \A j \in us : i <= j
        i2 == CHOOSE i \in us \ {i1} : \A j \in us \ {i1} : i <= j
        t0 == n - TIMESTAMP_DIGITS
        ok == /\ Cardinality(us) >= 3
              /\ \A i \in 1..n : IsAlnum(key[i]) \/ key[i] = "_"
              /\ 1 < i1 /\ i1 + 1 < i2 /\ i2 + 1 < t0
              /\ key[t0] = "_"
              /\ \A i \in (t0 + 1)..n : IsDigit(key[i])
    IN  IF ok
        THEN [ok |-> TRUE,
              firstName |-> SubSeq(key, 1, i1 - 1),
              lastName |-> SubSeq(key, i1 + 1, i2 - 1),
              email |-> SubSeq(key, i2 + 1, t0 - 1),
              timestamp |-> SubSeq(key, t0 + 1, n)]
        ELSE [ok |-> FALSE, firstName |-> <<>>, lastName |-> <<>>,
              email |-> <<>>, timestamp |-> <<>>]

NoPaths == [signatureParticipant |-> Null, signatureParent |-> Null]

\* the state of a sweep: the stores and the operations made so far, the
\* report, the copiedR2 / updatedSignaturePaths and the parsed record of the
\* key in hand, and whether an exception has ended the sweep
Sweep0(kvStore, r2Store) ==
    [kv |-> kvStore, r2 |-> r2Store, ops |-> <<>>, scanned |-> 0,
     migrated |-> <<>>, skipped |-> <<>>, logs |-> <<>>,
     copied |-> <<>>, paths |-> NoPaths, sub |-> NoSubmission,
     aborted |-> FALSE]

Log(st, msg, key) == [st EXCEPT !.logs = Append(@, <<msg, key>>)]

Skip(st, key, reason) ==
    [st EXCEPT !.skipped = Append(@, [key |-> key, reason |-> reason])]

Do(st, o) ==
    [st EXCEPT !.ops = Append(@, o),
               !.kv = ApplyOp(@, "kv", o),
               !.r2 = ApplyOp(@, "r2", o)]

Scanned(st) == [st EXCEPT !.scanned = @ + 1]

NewKeyExists_unchecked(st, newKey, fails) == TRUE

\* exists: get(newKey) returned a non-empty value
NewKeyExists(st, newKey, fails) ==
    /\ ~Throws(fails, "kv.get", newKey)
    /\ newKey \in DOMAIN st.kv
    /\ Truthy(st.kv[newKey])

\* delete mode, one signature field: the blob of the old key is deleted
DeleteBlob(st, oldKey, field, fails) ==
    IF st.paths[field] = Null \/ ~StartsWith(st.paths[field], oldKey) THEN st
    ELSE IF Throws(fails, "r2.delete", st.paths[field])
    THEN Log([st EXCEPT !.copied =
                  Append(@, <<st.paths[field], "(delete error)">>)],
             "Failed to delete R2 object", st.paths[field])
    ELSE Log([Do(st, R2Delete(st.paths[field])) EXCEPT
                 !.copied = Append(@, <<st.paths[field]>>)],
             "Deleted R2 object", st.paths[field])

DeleteOldKey_silent(st, oldKey, fails) ==
    IF Throws(fails, "kv.delete", oldKey) THEN st
    ELSE Log(Do(st, KvDelete(oldKey)), "Deleted oldKey", oldKey)

\* delete mode: the old key is deleted
DeleteOldKey(st, oldKey, fails) ==
    IF Throws(fails, "kv.delete", oldKey)
    THEN Log(st, "Failed to delete oldKey", oldKey)
    ELSE Log(Do(st, KvDelete(oldKey)), "Deleted oldKey", oldKey)

\* `${newKey}${field === "signatureParticipant" ? "_participant" : "_parent"}${ext}`
NewPath(newKey, field, oldPath) ==
    newKey \o Underscore
        \o (IF field = "signatureParticipant" THEN PARTICIPANT ELSE PARENT)
        \o (IF EndsWith(oldPath, <<".","p","n","g">>)
            THEN <<".","p","n","g">> ELSE <<>>)

CopyError(st, oldPath) ==
    Log([st EXCEPT !.copied = Append(@, <<oldPath, "(copy error)">>)],
        "Failed to copy R2 object", oldPath)

CopyFound_anyMode(st, oldPath, newPath, field, mode, fails) ==
    IF Throws(fails, "r2.put", newPath)
    THEN CopyError(st, oldPath)
    ELSE [Log(Do(st, R2Put(newPath)), "Copied R2 object", oldPath)
          EXCEPT !.copied = Append(@, <<oldPath, newPath>>),
                 !.paths[field] = newPath]

\* the blob is there: it is copied (commit) and the path of the record is
\* updated
CopyFound(st, oldPath, newPath, field, mode, fails) ==
    IF mode = "commit" /\ Throws(fails, "r2.put", newPath)
    THEN CopyError(st, oldPath)
    ELSE [(IF mode = "commit"
           THEN Log(Do(st, R2Put(newPath)), "Copied R2 object", oldPath)
           ELSE st)
          EXCEPT !.copied = Append(@, <<oldPath, newPath>>),
                 !.paths[field] = newPath]

\* dry-run and commit, one signature field: the blob of the old key is
\* copied to the path of the new key
CopyBlob(st, oldKey, newKey, field, mode, fails) ==
    IF st.paths[field] = Null \/ ~StartsWith(st.paths[field], oldKey) THEN st
    ELSE IF Throws(fails, "r2.get", st.paths[field])
    THEN CopyError(st, st.paths[field])
    ELSE IF st.paths[field] \notin DOMAIN st.r2
    THEN Log([st EXCEPT !.copied =
                  Append(@, <<st.paths[field], "(not found)">>)],
             "R2 object not found", st.paths[field])
    ELSE CopyFound(st, st.paths[field],
                   NewPath(newKey, field, st.paths[field]), field, mode, fails)

Migrated(oldKey, newKey, emailIndexKey, deleted, deletedR2, copied, paths) ==
    [oldKey |-> oldKey, newKey |-> newKey, emailIndexKey |-> emailIndexKey,
     deleted |-> deleted, deletedR2 |-> deletedR2, copiedR2 |-> copied,
     updatedSignaturePaths |-> paths]

\* migrated.push({oldKey, newKey, emailIndexKey, copiedR2, updatedSignaturePaths})
PushMigrated(st, oldKey, newKey, emailIndexKey) ==
    [st EXCEPT !.migrated =
        Append(@, Migrated(oldKey, newKey, emailIndexKey, FALSE, <<>>,
                           st.copied, st.paths))]

\* migrated.push({oldKey, newKey, emailIndexKey, deleted: true, deletedR2})
PushDeleted(st, oldKey, newKey, emailIndexKey) ==
    [st EXCEPT !.migrated =
        Append(@, Migrated(oldKey, newKey, emailIndexKey, TRUE, st.copied,
                           <<>>, NoPaths))]

WriteFailed(st, oldKey) ==
    Log(Skip(st, oldKey, "failed to write new KV"),
        "Failed to write new KV", oldKey)

\* commit: the record and the email index entry are written under the new
\* keys
WriteNewKeys(st, oldKey, newKey, emailIndexKey, data, fails) ==
    IF Throws(fails, "kv.put", newKey) THEN WriteFailed(st, oldKey)
    ELSE IF Throws(fails, "kv.put", emailIndexKey)
    THEN WriteFailed(Do(st, KvPut(newKey, JsonValue([sub |-> data.sub,
                                                     paths |-> st.paths]))),
                     oldKey)
    ELSE PushMigrated(
             Log(Do(Do(st, KvPut(newKey, JsonValue([sub |-> data.sub,
                                                    paths |-> st.paths]))),
                    KvPut(emailIndexKey, KeyValue(newKey))),
                 "Wrote new KV", newKey),
             oldKey, newKey, emailIndexKey)

\* dry-run and commit: the blobs, then the keys
CopyOld(st, oldKey, newKey, emailIndexKey, data, mode, fails) ==
    IF mode = "commit"
    THEN WriteNewKeys(
             CopyBlob(CopyBlob(st, oldKey, newKey, "signatureParticipant",
                               mode, fails),
                      oldKey, newKey, "signatureParent", mode, fails),
             oldKey, newKey, emailIndexKey, data, fails)
    ELSE PushMigrated(
             CopyBlob(CopyBlob(st, oldKey, newKey, "signatureParticipant",
                               mode, fails),
                      oldKey, newKey, "signatureParent", mode, fails),
             oldKey, newKey, emailIndexKey)

\* delete mode: the blobs, then the key
DeleteOld(st, oldKey, newKey, emailIndexKey, fails) ==
    PushDeleted(
        DeleteOldKey(
            DeleteBlob(DeleteBlob(st, oldKey, "signatureParticipant", fails),
                       oldKey, "signatureParent", fails),
            oldKey, fails),
        oldKey, newKey, emailIndexKey)

MissingValue(st, oldKey) ==
    Log(Skip(st, oldKey, "old key missing value"),
        "Skipped: missing value", oldKey)

\* the value of the old key is fetched and parsed
FetchOldKey(st, oldKey, newKey, emailIndexKey, mode, fails) ==
    IF Throws(fails, "kv.get", oldKey)
    THEN MissingValue(Log(st, "Error fetching oldKey", oldKey), oldKey)
    ELSE IF oldKey \notin DOMAIN st.kv \/ ~Truthy(st.kv[oldKey])
    THEN MissingValue(st, oldKey)
    ELSE IF st.kv[oldKey].kind # "json"
    THEN Log(Skip(st, oldKey, "invalid JSON in value"),
             "Skipped: invalid JSON", oldKey)
    ELSE IF mode = "delete"
    THEN DeleteOld([st EXCEPT !.copied = <<>>,
                              !.paths = st.kv[oldKey].data.paths],
                   oldKey, newKey, emailIndexKey, fails)
    ELSE CopyOld([st EXCEPT !.copied = <<>>,
                            !.paths = st.kv[oldKey].data.paths],
                 oldKey, newKey, emailIndexKey, st.kv[oldKey].data, mode,
                 fails)

\* the log of the look-up of the new key
LogNewKey(st, oldKey, newKey, fails) ==
    IF Throws(fails, "kv.get", newKey)
    THEN Log(st, "Error checking existence of newKey", newKey)
    ELSE IF NewKeyExists(st, newKey, fails)
    THEN Log(st, "New key already exists", oldKey)
    ELSE st

\* an old key is skipped in delete mode when its new key holds no value
CheckNewKey(st, oldKey, newKey, emailIndexKey, mode, fails) ==
    IF ~NewKeyExists(st, newKey, fails) /\ mode = "delete"
    THEN Log(Skip(LogNewKey(st, oldKey, newKey, fails), oldKey,
                  "no new key for deletion"),
             "Skipped deletion: no new key exists", oldKey)
    ELSE FetchOldKey(LogNewKey(st, oldKey, newKey, fails), oldKey, newKey,
                     emailIndexKey, mode, fails)

\* `${firstName}_${lastName}_${timestamp}`
NewKeyOf(match) ==
    match.firstName \o Underscore \o match.lastName \o Underscore
        \o match.timestamp

\* `email_${email}_${timestamp}`
EmailIndexKeyOf(match) ==
    <<"e","m","a","i","l","_">> \o match.email \o Underscore
        \o match.timestamp

\* the body of the loop over the listed keys, for one key
migrateKey(st, oldKey, mode, fails) ==
    IF ~keyRegex(oldKey).ok
    THEN Log(Scanned(st), "Skipped key: does not match migration pattern",
             oldKey)
    ELSE CheckNewKey(Log(Scanned(st), "Matches", oldKey), oldKey,
                     NewKeyOf(keyRegex(oldKey)),
                     EmailIndexKeyOf(keyRegex(oldKey)), mode, fails)

RECURSIVE migrateLoop(_, _, _, _)
migrateLoop(st, keys, mode, fails) ==
    IF keys = <<>> THEN st
    ELSE migrateLoop(migrateKey(st, Head(keys), mode, fails), Tail(keys),
                     mode, fails)

Report(mode, st) ==
    [mode |-> mode, totalScanned |-> st.scanned, migrated |-> st.migrated,
     skipped |-> st.skipped, totalMigrated |-> Len(st.migrated),
     totalSkipped |-> Len(st.skipped), logs |-> st.logs]

NoList == <<>>

\* the sweep over the keys listed, and its report
migrateSweep(mode, kvStore, r2Store, fails) ==
    Log(migrateLoop(Log(Sweep0(kvStore, r2Store), "Listed KV keys batch",
                        NoList),
                    List(kvStore, <<>>), mode, fails),
        "Migration complete", NoList)

SweepAnswer(mode, end) ==
    [resp |-> Response(200, <<"report">>, Null, Report(mode, end)),
     ops |-> end.ops]

ListError ==
    [resp |-> Response(500, <<"KV list error: ">>, Null, <<>>), ops |-> <<>>]

\* the answer and the store operations of POST /migrate-keys?mode=..
migrateKeys(modeParam, kvStore, r2Store, fails) ==
    IF Throws(fails, "kv.list", NoList) THEN ListError
    ELSE SweepAnswer(ModeOf(modeParam),
                     migrateSweep(ModeOf(modeParam), kvStore, r2Store, fails))

---------------------------------------------------------------------------
(* POST /migrate-base64-to-r2: the sweep that moves the data URLs of the  *)
(* records to the blob store                                              *)

EMAIL_PREFIX == <<"e","m","a","i","l","_">>

SkipLogged(st, key, reason) == Log(Skip(st, key, reason), reason, key)

\* `${key}_${field === "signatureParticipant" ? "participant" : "parent"}.${ext}`
R2PathOf(key, field, g) ==
    key \o Underscore
        \o (IF field = "signatureParticipant" THEN PARTICIPANT ELSE PARENT)
        \o <<".">> \o Ext(g)

MoveField_dropAnyway(st, key, field, r2Path, mode, fails) ==
    [(IF mode = "commit" /\ ~Throws(fails, "r2.put", r2Path)
      THEN Log(Do(st, R2Put(r2Path)), "Uploaded to R2", r2Path)
      ELSE st)
     EXCEPT !.paths[field] = r2Path,
            !.sub[field] = NoSig,
            !.copied = Append(@, <<field, r2Path>>)]

\* the data URL of the field goes to the blob store and leaves the record
MoveField(st, key, field, r2Path, mode, fails) ==
    IF mode = "commit" /\ Throws(fails, "r2.put", r2Path)
    THEN SkipLogged(st, key, "failed to upload to R2")
    ELSE [(IF mode = "commit"
           THEN Log(Do(st, R2Put(r2Path)), "Uploaded to R2", r2Path)
           ELSE Log(st, "[dry-run] Would upload to R2", r2Path))
          EXCEPT !.paths[field] = r2Path,
                 !.sub[field] = NoSig,
                 !.copied = Append(@, <<field, r2Path>>)]

\* one signature field of the record in hand; atob throws on a payload that
\* is no base64, which ends the sweep
Base64Field(st, key, field, mode, fails) ==
    IF st.aborted \/ ~HasAllowedPrefix(st.sub[field]) THEN st
    ELSE IF ~st.sub[field].ok THEN [st EXCEPT !.aborted = TRUE]
    ELSE MoveField(st, key, field, R2PathOf(key, field, st.sub[field]),
                   mode, fails)

\* the record is written back when a field was moved
Base64Update(st, key, mode, fails) ==
    IF st.aborted THEN st
    ELSE IF st.copied = <<>>
    THEN Skip(st, key, "no base64 images found")
    ELSE IF mode = "commit" /\ Throws(fails, "kv.put", key)
    THEN SkipLogged(st, key, "failed to update KV")
    ELSE [(IF mode = "commit"
           THEN Log(Do(st, KvPut(key, JsonValue([sub |-> st.sub,
                                                 paths |-> st.paths]))),
                    "Updated KV", key)
           ELSE Log(st, "[dry-run] Would update KV", key))
          EXCEPT !.migrated = Append(@, [key |-> key, moved |-> st.copied])]

Base64Record(st, key, mode, fails) ==
    Base64Update(
        Base64Field(Base64Field(st, key, "signatureParticipant", mode, fails),
                    key, "signatureParent", mode, fails),
        key, mode, fails)

\* the value of the key is fetched, parsed and checked
Base64Fetch(st, key, mode, fails) ==
    IF Throws(fails, "kv.get", key)
    THEN SkipLogged(Log(st, "Error fetching key", key), key, "missing value")
    ELSE IF key \notin DOMAIN st.kv \/ ~Truthy(st.kv[key])
    THEN SkipLogged(st, key, "missing value")
    ELSE IF st.kv[key].kind # "json"
    THEN SkipLogged(st, key, "invalid JSON")
    ELSE IF ~isValidLookupData(st.kv[key].data)
    THEN SkipLogged(st, key, "invalid data shape")
    ELSE Base64Record([st EXCEPT !.copied = <<>>,
                                 !.paths = st.kv[key].data.paths,
                                 !.sub = st.kv[key].data.sub],
                      key, mode, fails)

\* the body of the loop over the listed keys, for one key
base64Key(st, key, mode, fails) ==
    IF StartsWith(key, EMAIL_PREFIX) THEN st
    ELSE Base64Fetch(Scanned(st), key, mode, fails)

RECURSIVE base64Loop(_, _, _, _)
base64Loop(st, keys, mode, fails) ==
    IF keys = <<>> \/ st.aborted THEN st
    ELSE base64Loop(base64Key(st, Head(keys), mode, fails), Tail(keys),
                    mode, fails)

base64Sweep(mode, kvStore, r2Store, fails) ==
    base64Loop(Log(Sweep0(kvStore, r2Store), "Listed KV keys batch", NoList),
               List(kvStore, <<>>), mode, fails)

\* the report of a sweep, or 500 'Migration failed' and the operations made
\* before the exception
SweepOrAbort(mode, end) ==
    IF end.aborted
    THEN [resp |-> Response(500, <<"Migration failed">>, Null, <<>>),
          ops |-> end.ops]
    ELSE SweepAnswer(mode, Log(end, "Migration complete", NoList))

\* the answer and the store operations of POST /migrate-base64-to-r2?mode=..
migrateBase64ToR2(modeParam, kvStore, r2Store, fails) ==
    IF Throws(fails, "kv.list", NoList) THEN ListError
    ELSE SweepOrAbort(ModeOf(modeParam),
                      base64Sweep(ModeOf(modeParam), kvStore, r2Store, fails))

---------------------------------------------------------------------------
(* POST /migrate-ess-prefix: the sweep that puts the keys and the blobs   *)
(* under the ESS prefix                                                   *)

ESS_KEY_PREFIX == <<"E","S","S","_">>
ESS_PATH_PREFIX == <<"E","S","S","/">>

Includes(s, p) ==
    \E i \in 1..(Len(s) - Len(p) + 1) : SubSeq(s, i, i + Len(p) - 1) = p

\* the index entry is written under the prefixed key and the old one deleted
MoveIndexKey(st, key, fails) ==
    IF Throws(fails, "kv.put", ESS_KEY_PREFIX \o key)
    THEN Log(st, "Error writing new index KV key", key)
    ELSE IF Throws(fails, "kv.delete", key)
    THEN Log(Log(Do(st, KvPut(ESS_KEY_PREFIX \o key, st.kv[key])),
                 "Created new index KV key", key),
             "Error writing new index KV key", key)
    ELSE Log(Log(Do(Do(st, KvPut(ESS_KEY_PREFIX \o key, st.kv[key])),
                    KvDelete(key)),
                 "Created new index KV key", key),
             "Deleted old index KV key", key)

PushPrefixed(st, key, moved) ==
    [st EXCEPT !.migrated =
        Append(@, [oldKey |-> key, newKey |-> ESS_KEY_PREFIX \o key,
                   moved |-> moved])]

\* a key of the email index
EssIndexKey(st, key, mode, fails) ==
    IF Throws(fails, "kv.get", key)
    THEN SkipLogged(Log(st, "Error fetching index key", key), key,
                    "missing value")
    ELSE IF key \notin DOMAIN st.kv \/ ~Truthy(st.kv[key])
    THEN SkipLogged(st, key, "missing value")
    ELSE PushPrefixed(IF mode = "commit" THEN MoveIndexKey(st, key, fails)
                      ELSE Log(st, "[dry-run] Would create new index KV key",
                               key),
                      key, <<>>)

\* commit: the blob is copied to the prefixed path and the old one deleted;
\* the path of the record changes when all three calls succeed
MoveBlob(st, field, oldPath, fails) ==
    IF Throws(fails, "r2.get", oldPath)
    THEN Log(st, "Error moving R2 image", oldPath)
    ELSE IF oldPath \notin DOMAIN st.r2
    THEN Log(st, "R2 image not found", oldPath)
    ELSE IF Throws(fails, "r2.put", ESS_PATH_PREFIX \o oldPath)
    THEN Log(st, "Error moving R2 image", oldPath)
    ELSE IF Throws(fails, "r2.delete", oldPath)
    THEN Log(Do(st, R2Put(ESS_PATH_PREFIX \o oldPath)),
             "Error moving R2 image", oldPath)
    ELSE [Log(Do(Do(st, R2Put(ESS_PATH_PREFIX \o oldPath)),
                 R2Delete(oldPath)),
              "Moved R2 image", oldPath)
          EXCEPT !.paths[field] = ESS_PATH_PREFIX \o oldPath,
                 !.copied = Append(@, <<field, ESS_PATH_PREFIX \o oldPath>>)]

\* one signature path of the record in hand
EssField(st, field, mode, fails) ==
    IF st.paths[field] = Null \/ StartsWith(st.paths[field], ESS_PATH_PREFIX)
    THEN st
    ELSE IF mode = "commit" THEN MoveBlob(st, field, st.paths[field], fails)
    ELSE [Log(st, "[dry-run] Would move R2 image", st.paths[field])
          EXCEPT !.copied =
              Append(@, <<field, ESS_PATH_PREFIX \o st.paths[field]>>)]

\* commit: the record is written under the prefixed key and the old key
\* deleted
MoveMainKey(st, key, fails) ==
    IF Throws(fails, "kv.put", ESS_KEY_PREFIX \o key)
    THEN Log(st, "Error writing new KV key", key)
    ELSE IF Throws(fails, "kv.delete", key)
    THEN Log(Log(Do(st, KvPut(ESS_KEY_PREFIX \o key,
                              JsonValue([sub |-> st.sub,
                                         paths |-> st.paths]))),
                 "Created new KV key", key),
             "Error writing new KV key", key)
    ELSE Log(Log(Do(Do(st, KvPut(ESS_KEY_PREFIX \o key,
                                 JsonValue([sub |-> st.sub,
                                            paths |-> st.paths]))),
                    KvDelete(key)),
                 "Created new KV key", key),
             "Deleted old KV key", key)

EssWrite(st, key, mode, fails) ==
    PushPrefixed(IF mode = "commit" THEN MoveMainKey(st, key, fails)
                 ELSE Log(st, "[dry-run] Would create new KV key", key),
                 key, st.copied)

EssRecord(st, key, mode, fails) ==
    EssWrite(EssField(EssField(st, "signatureParticipant", mode, fails),
                      "signatureParent", mode, fails),
             key, mode, fails)

\* one pass over a record key: fetch, parse, check, move
EssMainKey(st, key, mode, fails) ==
    IF Throws(fails, "kv.get", key)
    THEN SkipLogged(Log(st, "Error fetching key", key), key, "missing value")
    ELSE IF key \notin DOMAIN st.kv \/ ~Truthy(st.kv[key])
    THEN SkipLogged(st, key, "missing value")
    ELSE IF st.kv[key].kind # "json"
    THEN SkipLogged(st, key, "invalid JSON")
    ELSE IF ~isValidLookupData(st.kv[key].data)
    THEN SkipLogged(st, key, "invalid data shape")
    ELSE EssRecord([st EXCEPT
                       !.copied = <<>>,
                       !.paths = st.kv[key].data.paths,
                       !.sub = [st.kv[key].data.sub EXCEPT
                                   !.rsg1 = Str(<<"E","S","S">>)]],
                   key, mode, fails)

\* the second pass over the key, made when the first one migrated it
EssSecondPass(st, skippedBefore, key, mode, fails) ==
    IF Len(st.skipped) # skippedBefore THEN st
    ELSE EssMainKey(st, key, mode, fails)

\* the body of the loop over the listed keys, for one key
essKey(st, key, mode, fails) ==
    IF StartsWith(key, ESS_KEY_PREFIX)
    THEN Skip(Log(Scanned(st), "Skipped already-prefixed key", key), key,
              "already prefixed")
    ELSE IF StartsWith(key, EMAIL_PREFIX) \/ Includes(key, EMAIL_INFIX)
    THEN EssIndexKey(Scanned(st), key, mode, fails)
    ELSE EssSecondPass(EssMainKey(Scanned(st), key, mode, fails),
                       Len(st.skipped), key, mode, fails)

RECURSIVE essLoop(_, _, _, _)
essLoop(st, keys, mode, fails) ==
    IF keys = <<>> THEN st
    ELSE essLoop(essKey(st, Head(keys), mode, fails), Tail(keys), mode, fails)

essSweep(mode, kvStore, r2Store, fails) ==
    Log(essLoop(Log(Sweep0(kvStore, r2Store), "Listed KV keys batch", NoList),
                List(kvStore, <<>>), mode, fails),
        "Migration complete", NoList)

\* the answer and the store operations of POST /migrate-ess-prefix?mode=..
migrateEssPrefix(modeParam, kvStore, r2Store, fails) ==
    IF Throws(fails, "kv.list", NoList) THEN ListError
    ELSE SweepAnswer(ModeOf(modeParam),
                     essSweep(ModeOf(modeParam), kvStore, r2Store, fails))

---------------------------------------------------------------------------
(* withRetry of the batch scripts (scripts/generate-pdfs.ts)               *)

DEFAULT_RETRIES == 3
BACKOFF_MS == 500

\* the retries argument: given with a value, or left out
RetriesArg(n) == [given |-> TRUE, n |-> n]
NoRetriesArg == [given |-> FALSE, n |-> 0]

\* retries = 3
RetriesOf(arg) == IF arg.given THEN arg.n ELSE DEFAULT_RETRIES

\* the outcomes of one call of fn
Fulfilled(v) == [ok |-> TRUE, val |-> v]
Rejected(e) == [ok |-> FALSE, val |-> e]

\* lastErr before the first catch
Undefined == "undefined"

\* no call of withRetry is under way
NoRetry ==
    [pc |-> "idle", arg |-> NoRetriesArg, retries |-> 0, attempt |-> 0,
     lastErr |-> Undefined,
     settled |-> Fulfilled(Undefined), inflight |-> 0, outcomes |-> <<>>,
     waits |-> <<>>, timer |-> 0]

\* withRetry(fn, retries) has been called: let lastErr; attempt = 0
Entered(arg) ==
    [NoRetry EXCEPT !.pc = "loop", !.arg = arg, !.retries = RetriesOf(arg)]

Delay_constant(attempt) == BACKOFF_MS

\* 500 * (attempt + 1)
Delay(attempt) == BACKOFF_MS * (attempt + 1)

\* attempt < retries: fn() is called and awaited
CallFnOf(st) == [st EXCEPT !.pc = "await", !.inflight = @ + 1]

\* return await fn()
ReturnOf(st, v) ==
    [st EXCEPT !.pc = "returned", !.inflight = @ - 1,
               !.settled = Fulfilled(v),
               !.outcomes = Append(@, Fulfilled(v))]

\* catch (err): lastErr = err; the last attempt throws err, any other one
\* sets the timer
CatchOf(st, e) ==
    IF st.attempt = st.retries - 1
    THEN [st EXCEPT !.pc = "thrown", !.inflight = @ - 1, !.lastErr = e,
                    !.settled = Rejected(e),
                    !.outcomes = Append(@, Rejected(e))]
    ELSE [st EXCEPT !.pc = "sleep", !.inflight = @ - 1, !.lastErr = e,
                    !.timer = Delay(st.attempt),
                    !.outcomes = Append(@, Rejected(e))]

\* the timer fires: attempt++
WakeOf(st) ==
    [st EXCEPT !.pc = "loop", !.attempt = @ + 1,
               !.waits = Append(@, st.timer), !.timer = 0]

\* the loop ends with attempt >= retries: throw lastErr
ThrowLastOf(st) == [st EXCEPT !.pc = "thrown", !.settled = Rejected(st.lastErr)]

---------------------------------------------------------------------------
(* A GET /lookup by email that runs while a POST /form-handler is storing: *)
(* every awaited store call of the two requests is one step                *)

\* what get(key) resolves to: the value, or null
Get(store, key) == IF key \in DOMAIN store THEN store[key] ELSE KeyValue(<<>>)

\* no lookup is under way
NoRace ==
    [pc |-> "idle", pending |-> <<>>, answer |-> Response(0, <<>>, Null, <<>>),
     prefix |-> <<>>, listed |-> <<>>, mainKeys |-> <<>>, got |-> {},
     checked |-> {}, deleting |-> {}, valid |-> <<>>, fetched |-> {},
     results |-> <<>>, deleted |-> {}]

\* the two requests have arrived: the POST has its operations to make, the
\* lookup its prefix `${rsg}_email_${normalized}_` to list
Arrived(post, rsg, input) ==
    [NoRace EXCEPT
        !.pc = "list", !.pending = post.ops, !.answer = post.resp,
        !.prefix = rsg \o EMAIL_INFIX \o sanitize(input) \o Underscore]

\* const listResponse = await KV.list({prefix})
ListedOf(st, store) ==
    [st EXCEPT !.pc = "run", !.listed = List(store, st.prefix),
               !.mainKeys = [i \in DOMAIN List(store, st.prefix) |->
                                KeyValue(<<>>)]]

\* await KV.get(keyObj.name), for the i-th listed key
IndexReadOf(st, store, i) ==
    [st EXCEPT !.mainKeys[i] = Get(store, st.listed[i]), !.got = @ \cup {i}]

\* if (!mainKey) return; const value = await KV.get(mainKey); if (!value)
\* the delete is to come, else validMainKeys.push(mainKey)
MainReadOf(st, store, i) ==
    IF ~Truthy(st.mainKeys[i]) THEN [st EXCEPT !.checked = @ \cup {i}]
    ELSE IF MainRecordFound(store, st.mainKeys[i])
    THEN [st EXCEPT !.checked = @ \cup {i},
                    !.valid = Append(@, st.mainKeys[i].key)]
    ELSE [st EXCEPT !.deleting = @ \cup {i}]

\* await KV.delete(listResponse.keys[idx].name) has resolved
OrphanDeletedOf(st, i) ==
    [st EXCEPT !.deleting = @ \ {i}, !.checked = @ \cup {i},
               !.deleted = @ \cup {st.listed[i]}]

\* fetchValidRecords: await KV.get(key) of the j-th valid key
RecordReadOf(st, store, j) ==
    [st EXCEPT !.fetched = @ \cup {j},
               !.results = @ \o fetchValidRecords(<<st.valid[j]>>, store)]

---------------------------------------------------------------------------
(* The requests of the model *)

ESS == <<"E","S","S">>
GIF_PREFIX == DATA_IMAGE \o <<"g","i","f",";","b","a","s","e","6","4",",">>

Day0 == <<2025, 6, 15>>

SmallPng == Sig(PNG_PREFIX, 88, FALSE, TRUE)
SmallJpeg == Sig(JPEG_PREFIX, 88, FALSE, TRUE)
TextSig == Sig(<<"J","o"," ","D">>, 0, FALSE, FALSE)

\* the adult submission of the tests, with an opted-in RSG
ValidSubmission ==
    [preferredLanguage |-> Str(<<"e","n">>),
     firstName |-> Str(<<"J","o">>),
     lastName |-> Str(<<"D","o","e">>),
     email |-> Str(<<"a","@","b",".","c">>),
     phone |-> Str(<<"1","2">>),
     languages |-> Str(<<"E","n">>),
     program |-> Str(<<"E","n","g">>),
     rsg1 |-> Str(ESS),
     emergencyName |-> Str(<<"J","a","n","e">>),
     emergencyPhone |-> Str(<<"0","9">>),
     dob |-> Str(<<2000, 1, 1>>),
     fullNameParticipant |-> Str(<<"J","o"," ","D">>),
     signatureParticipant |-> SmallPng,
     fullNameParent |-> Undef,
     signatureParent |-> NoSig]

SigSamples ==
    {NoSig,
     Sig(<<>>, 0, FALSE, FALSE),
     Sig(<<>>, 3, TRUE, FALSE),
     TextSig,
     Sig(GIF_PREFIX, 88, FALSE, TRUE),
     SmallPng,
     SmallJpeg,
     Sig(PNG_PREFIX, 16, FALSE, FALSE),
     Sig(PNG_PREFIX, 1398100, FALSE, TRUE),
     Sig(PNG_PREFIX, 1398101, FALSE, FALSE),
     Sig(PNG_PREFIX, 1398102, FALSE, TRUE),
     Sig(JPEG_PREFIX, 2097152, FALSE, TRUE)}

ParentSigSamples ==
    {NoSig, Sig(<<>>, 0, FALSE, FALSE), TextSig, Sig(GIF_PREFIX, 88, FALSE, TRUE),
     SmallPng, Sig(JPEG_PREFIX, 16, FALSE, FALSE),
     Sig(PNG_PREFIX, 1398100, FALSE, TRUE), Sig(PNG_PREFIX, 1398102, FALSE, TRUE)}

DobSamples ==
    {Undef, Str(<<2000, 1, 1>>), Str(<<2007, 6, 15>>), Str(<<2007, 6, 16>>),
     Str(<<2007, 5, 20>>), Str(<<2007, 7, 1>>), Str(<<2015, 1, 1>>),
     Str(<<2025, 6, 15>>), Str(<<2025, 6, 16>>), Str(<<2999, 1, 1>>)}

NameSamples ==
    {Str(<<"J","o">>), Str(<<" ","a","-","B"," ">>), Str(<<"A"," ","b">>)}

EmailSamples ==
    {Str(<<"a","@","b",".","c">>), Str(<<"J",".","D","@","x",".","i","o">>),
     Str(<<"a","b",".","c">>), Str(<<"a","@","b","c">>),
     Str(<<"a"," ","@","b",".","c">>), Str(<<"a","@","@","b",".","c">>),
     Str(<<"a","@",".","c">>), Str(<<"a","@","b",".">>), Num(<<"5">>)}

\* submissions that vary the ten required fields
RequiredFieldSubmissions ==
    {[ValidSubmission EXCEPT
        !.preferredLanguage = pl, !.firstName = fn, !.lastName = ln,
        !.email = em, !.phone = ph, !.languages = la, !.rsg1 = rs,
        !.emergencyName = en, !.emergencyPhone = ep] :
        pl \in {Str(<<"e","n">>), Undef},
        fn \in NameSamples \cup {Str(<<" "," ">>), Undef, Num(<<"5">>)},
        ln \in {Str(<<"D","o","e">>), Str(<<>>), Str(<<"\t">>)},
        em \in {Str(<<"a","@","b",".","c">>), Str(<<"a","b",".","c">>),
                Str(<<>>), Num(<<"7">>)},
        ph \in {Str(<<"1","2">>), Num(<<"0">>)},
        la \in {Str(<<"E","n">>), Str(<<" ">>)},
        rs \in {Str(ESS), Str(<<"Y","e","s">>), Undef},
        en \in {Str(<<"J","a","n","e">>), Str(<<>>)},
        ep \in {Str(<<"0","9">>), Undef}}

\* submissions that vary the signer's fields, the date of birth and the RSG
SignerSubmissions ==
    {[ValidSubmission EXCEPT
        !.firstName = fn, !.email = em, !.rsg1 = rs, !.dob = dob,
        !.fullNameParticipant = np, !.signatureParticipant = sp,
        !.fullNameParent = nq, !.signatureParent = sq] :
        fn \in {Str(<<"J","o">>), Str(<<" ","a","-","B"," ">>)},
        em \in {Str(<<"a","@","b",".","c">>),
                Str(<<"J",".","D","@","x",".","i","o">>)},
        rs \in {Str(ESS), Str(<<"Y","e","s">>)},
        dob \in DobSamples,
        np \in {Str(<<"J","o"," ","D">>), Str(<<" ">>), Undef},
        sp \in SigSamples,
        nq \in {Str(<<"P","a">>), Undef},
        sq \in ParentSigSamples}

EmailSubmissions ==
    {[ValidSubmission EXCEPT !.email = em, !.firstName = fn, !.lastName = ln] :
        em \in EmailSamples, fn \in NameSamples, ln \in NameSamples}

\* the submissions of the runs with several requests
Submissions ==
    {ValidSubmission,
     [ValidSubmission EXCEPT !.firstName = Str(<<"A"," ","b">>)],
     [ValidSubmission EXCEPT !.firstName = Str(<<"e","m","a","i","l">>),
                             !.lastName = Str(<<"a",".","B",".","c">>)],
     [ValidSubmission EXCEPT !.signatureParticipant = TextSig,
                             !.dob = Str(<<2015, 1, 1>>),
                             !.fullNameParent = Str(<<"P","a">>),
                             !.signatureParent = SmallJpeg],
     [ValidSubmission EXCEPT
        !.signatureParticipant = Sig(PNG_PREFIX, 1398102, FALSE, TRUE)],
     [ValidSubmission EXCEPT
        !.signatureParent = Sig(PNG_PREFIX, 16, FALSE, FALSE)],
     [ValidSubmission EXCEPT
        !.signatureParticipant = Sig(GIF_PREFIX, 88, FALSE, TRUE)],
     [ValidSubmission EXCEPT !.lastName = Str(<<" ">>)],
     [ValidSubmission EXCEPT !.rsg1 = Str(<<"Y","e","s">>)]}

PostSubmissions ==
    RequiredFieldSubmissions \cup SignerSubmissions \cup EmailSubmissions
        \cup Submissions

\* bodies that are no JSON: none, and the text of the test
UnparseableBodies ==
    {RawBody(<<>>), RawBody(<<"{","n","o","t"," ","j","s","o","n","}">>)}

\* 'F L', the full name the admin page sends for a submission
FullName(sub) == sub.firstName.v \o <<" ">> \o sub.lastName.v

LookupInputs ==
    {Undef, Str(<<"J","o">>), Str(<<"A"," ","b">>)}
        \cup {sub.email : sub \in Submissions}
        \cup {Str(FullName(sub)) : sub \in Submissions}

LookupRsgs == {Str(ESS), Undef}

\* the values of the mode parameter, "" for none
Modes == {"", "dry-run", "commit", "delete"}

TS1 == <<"1","7","0","0","0","0","0","0","0","0","0","0","1">>
TS2 == <<"1","7","0","0","0","0","0","0","0","0","0","0","2">>

\* two keys of the old format, the new keys and the email index key the
\* sweep derives from the first, and a key that is no record key
OLD1 == <<"j","o","_","d","o","e","_","a","_","b","_","c","_">> \o TS1
NEW1 == <<"j","o","_","d","o","e","_">> \o TS1
INDEX1 == <<"e","m","a","i","l","_","a","_","b","_","c","_">> \o TS1
OLD2 == <<"a","l","_","f","a","_","x","_","y","_">> \o TS2
NEW2 == <<"a","l","_","f","a","_">> \o TS2
INDEX2 == <<"e","m","a","i","l","_","x","_","y","_">> \o TS2
BAD == <<"z","e","d","_","b","a","d","_">> \o TS2
PREFIXED == <<"E","S","S","_","j","o","_","d","o","e","_">> \o TS1

PNG_SUFFIX == <<"_","p","a","r","t","i","c","i","p","a","n","t",".","p","n","g">>

\* the record of key with its participant signature in the blob store
BlobRecord(key) ==
    JsonValue([sub |-> [ValidSubmission EXCEPT !.signatureParticipant = NoSig],
               paths |-> [signatureParticipant |-> key \o PNG_SUFFIX,
                          signatureParent |-> Null]])

\* a record that still carries its signature as a data URL
InlineRecord(g) ==
    JsonValue([sub |-> [ValidSubmission EXCEPT !.signatureParticipant = g],
               paths |-> NoPaths])

\* a record that carries both signatures as data URLs
BothInline ==
    JsonValue([sub |-> [ValidSubmission EXCEPT
                           !.signatureParticipant = SmallPng,
                           !.fullNameParent = Str(<<"P","a">>),
                           !.signatureParent = SmallJpeg],
               paths |-> NoPaths])

\* the largest content of the key-value store before a sweep: records of the
\* three key formats, an index entry, a record with a signature that is no
\* base64, and a record already under the ESS prefix
FullKv ==
    (OLD1 :> BlobRecord(OLD1)) @@ (NEW1 :> BlobRecord(NEW1))
        @@ (INDEX1 :> KeyValue(NEW1)) @@ (OLD2 :> BothInline)
        @@ (BAD :> InlineRecord(Sig(PNG_PREFIX, 16, FALSE, FALSE)))
        @@ (PREFIXED :> BlobRecord(NEW1))

FullR2 ==
    (OLD1 \o PNG_SUFFIX :> BlobValue) @@ (NEW1 \o PNG_SUFFIX :> BlobValue)

Restrict(store, keys) == [k \in keys |-> store[k]]

MigrateStores == {Restrict(FullKv, S) : S \in SUBSET DOMAIN FullKv}
MigrateBlobs == {Restrict(FullR2, S) : S \in SUBSET DOMAIN FullR2}

\* the store calls of a sweep that may throw
Calls ==
    {<<"kv.list", NoList>>}
        \cup {<<"kv.get", k>> : k \in {OLD1, NEW1, OLD2, NEW2}}
        \cup {<<"kv.put", k>> : k \in {NEW1, INDEX1, NEW2, INDEX2}}
        \cup {<<"kv.delete", k>> : k \in {OLD1}}
        \cup {<<"r2.get", OLD1 \o PNG_SUFFIX>>,
              <<"r2.put", NEW1 \o PNG_SUFFIX>>,
              <<"r2.delete", OLD1 \o PNG_SUFFIX>>}

\* no call throws, one does, or two do
FailSets ==
    {{}} \cup {{c} : c \in Calls}
        \cup {{<<"kv.get", NEW2>>, <<"kv.get", OLD1>>},
              {<<"kv.put", NEW2>>, <<"r2.put", NEW1 \o PNG_SUFFIX>>},
              {<<"kv.delete", OLD1>>, <<"r2.delete", OLD1 \o PNG_SUFFIX>>}}

Base64FailSets ==
    {{}, {<<"kv.list", NoList>>}, {<<"kv.get", OLD2>>},
     {<<"r2.put", OLD2 \o PNG_SUFFIX>>}, {<<"kv.put", OLD2>>},
     {<<"r2.put", R2PathOf(OLD2, "signatureParent", SmallJpeg)>>}}

EssFailSets ==
    {{}, {<<"kv.list", NoList>>}, {<<"kv.get", OLD1>>},
     {<<"kv.delete", OLD1>>}, {<<"kv.put", ESS_KEY_PREFIX \o INDEX1>>},
     {<<"r2.delete", OLD1 \o PNG_SUFFIX>>}}

---------------------------------------------------------------------------
(* The state machine *)

NoRequest ==
    [op |-> "none", sub |-> NoSubmission, rsg |-> Undef, input |-> Undef,
     at |-> 0]

PostRequest(sub, t) ==
    [op |-> "post", sub |-> sub, rsg |-> Undef, input |-> Undef, at |-> t]

LookupRequest(rsg, input, t) ==
    [op |-> "lookup", sub |-> NoSubmission, rsg |-> rsg, input |-> input,
     at |-> t]

\* POST /delete with the body {key}, as the admin page sends it
DeleteRequest(key, t) ==
    [op |-> "delete", sub |-> NoSubmission, rsg |-> Undef,
     input |-> Str(key), at |-> t]

NoResponse == Response(0, <<>>, Null, <<>>)

\* the last statement of fetch: no route matched
MethodNotAllowed ==
    [resp |-> Response(405, <<"Method Not Allowed">>, Null, <<>>),
     ops |-> <<>>]

Init ==
    /\ kv = EmptyStore
    /\ r2 = EmptyStore
    /\ now = Epoch
    /\ today = Day0
    /\ req = NoRequest
    /\ resp = NoResponse
    /\ ops = <<>>
    /\ nreq = 0
    /\ retry = NoRetry
    /\ race = NoRace

\* one request: its answer, and its operations applied to the two stores
Serve(request, answer) ==
    /\ req' = request
    /\ resp' = answer.resp
    /\ ops' = answer.ops
    /\ kv' = ApplyOps(kv, "kv", answer.ops)
    /\ r2' = ApplyOps(r2, "r2", answer.ops)
    /\ nreq' = nreq + 1
    /\ UNCHANGED <<now, today, retry, race>>

FormPost_dedup ==
    /\ nreq < MaxReq
    /\ \E sub \in Submissions \cup UnparseableBodies :
          Serve(PostRequest(sub, now),
                IF /\ ~ParseFails(sub)
                   /\ \E k \in DOMAIN kv :
                         /\ kv[k].kind = "json"
                         /\ kv[k].data.sub.email = sub.email
                THEN Reject(<<"Duplicate submission">>, <<>>)
                ELSE handleFormPost(sub, now, today))

\* POST /form-handler
FormPost ==
    /\ nreq < MaxReq
    /\ \E sub \in Submissions \cup UnparseableBodies :
          Serve(PostRequest(sub, now), handleFormPost(sub, now, today))

\* GET /lookup
Lookup ==
    /\ nreq < MaxReq
    /\ \E rsg \in LookupRsgs : \E input \in LookupInputs :
          Serve(LookupRequest(rsg, input, now), handleLookup(rsg, input, kv))

\* the clock advances between two requests
Tick ==
    /\ now < Epoch + MaxClock
    /\ now' = now + 1
    /\ UNCHANGED <<kv, r2, today, req, resp, ops, nreq, retry, race>>

\* POST /delete for a key of the store: no route of fetch matches it
Delete ==
    /\ nreq < MaxReq
    /\ \E key \in DOMAIN kv :
          Serve(DeleteRequest(key, now), MethodNotAllowed)

Next == FormPost \/ Lookup \/ Delete \/ Tick

Spec == Init /\ [][Next]_vars

\* A single POST /form-handler on empty stores, for every body of
\* PostSubmissions
InitPost ==
    /\ kv = EmptyStore
    /\ r2 = EmptyStore
    /\ now \in Epoch..(Epoch + MaxClock)
    /\ today = Day0
    /\ req \in {PostRequest(sub, 0) :
                    sub \in PostSubmissions \cup UnparseableBodies}
    /\ resp = NoResponse
    /\ ops = <<>>
    /\ nreq = 0
    /\ retry = NoRetry
    /\ race = NoRace

Answer ==
    /\ nreq = 0
    /\ Serve(PostRequest(req.sub, now), handleFormPost(req.sub, now, today))

NextPost == Answer

SpecPost == InitPost /\ [][NextPost]_vars

\* One migration request on stores of every content of MigrateStores and
\* MigrateBlobs
MigrateRequest(op, mode, fails) ==
    [op |-> op, sub |-> NoSubmission, rsg |-> Undef, input |-> Undef,
     at |-> 0, mode |-> mode, fails |-> fails]

InitMigrate ==
    /\ kv \in MigrateStores
    /\ r2 \in MigrateBlobs
    /\ now = Epoch
    /\ today = Day0
    /\ req = NoRequest
    /\ resp = NoResponse
    /\ ops = <<>>
    /\ nreq = 0
    /\ retry = NoRetry
    /\ race = NoRace

\* POST /migrate-keys
MigrateKeys ==
    /\ nreq = 0
    /\ \E mode \in Modes : \E fails \in FailSets :
          Serve(MigrateRequest("migrate-keys", mode, fails),
                migrateKeys(mode, kv, r2, fails))

\* POST /migrate-base64-to-r2
MigrateBase64ToR2 ==
    /\ nreq = 0
    /\ \E mode \in Modes : \E fails \in Base64FailSets :
          Serve(MigrateRequest("migrate-base64-to-r2", mode, fails),
                migrateBase64ToR2(mode, kv, r2, fails))

\* POST /migrate-ess-prefix
MigrateEssPrefix ==
    /\ nreq = 0
    /\ \E mode \in Modes : \E fails \in EssFailSets :
          Serve(MigrateRequest("migrate-ess-prefix", mode, fails),
                migrateEssPrefix(mode, kv, r2, fails))

NextMigrate == MigrateKeys \/ MigrateBase64ToR2 \/ MigrateEssPrefix

SpecMigrate == InitMigrate /\ [][NextMigrate]_vars

\* POST /migrate-keys?mode=commit and then POST /migrate-keys?mode=delete, on
\* stores that also hold two old keys of one name and timestamp
OLD3 == <<"j","o","_","d","o","e","_","x","_","y","_">> \o TS1

OtherRecord ==
    JsonValue([sub |-> [ValidSubmission EXCEPT
                           !.email = Str(<<"x","@","y">>),
                           !.phone = Str(<<"3","4">>),
                           !.signatureParticipant = TextSig],
               paths |-> NoPaths])

KeysKv ==
    (OLD1 :> BlobRecord(OLD1)) @@ (OLD3 :> OtherRecord)
        @@ (OLD2 :> InlineRecord(SmallPng)) @@ (NEW1 :> BlobRecord(NEW1))
        @@ (BAD :> InlineRecord(TextSig))

KeysFailSets == {{}, {<<"kv.put", NEW2>>}, {<<"kv.delete", OLD1>>}}

InitKeys ==
    /\ kv \in {Restrict(KeysKv, S) : S \in SUBSET DOMAIN KeysKv}
    /\ r2 \in MigrateBlobs
    /\ now = Epoch
    /\ today = Day0
    /\ req = NoRequest
    /\ resp = NoResponse
    /\ ops = <<>>
    /\ nreq = 0
    /\ retry = NoRetry
    /\ race = NoRace

\* the commit sweep
KeysCommit ==
    /\ nreq = 0
    /\ \E fails \in KeysFailSets :
          Serve(MigrateRequest("migrate-keys", "commit", fails),
                migrateKeys("commit", kv, r2, fails))

\* the delete sweep that follows it
KeysDelete ==
    /\ nreq = 1
    /\ \E fails \in KeysFailSets :
          Serve(MigrateRequest("migrate-keys", "delete", fails),
                migrateKeys("delete", kv, r2, fails))

NextKeys == KeysCommit \/ KeysDelete

SpecKeys == InitKeys /\ [][NextKeys]_vars

\* One call of withRetry(fn, retries), fn settling either way at each call
FnValues == {"v1", "v2"}
FnErrors == {"e1", "e2"}

RetryArgs == {NoRetriesArg} \cup {RetriesArg(n) : n \in 0..MaxRetries}

InitRetry ==
    /\ kv = EmptyStore
    /\ r2 = EmptyStore
    /\ now = Epoch
    /\ today = Day0
    /\ req = NoRequest
    /\ resp = NoResponse
    /\ ops = <<>>
    /\ nreq = 0
    /\ retry \in {Entered(arg) : arg \in RetryArgs}
    /\ race = NoRace

Others == <<kv, r2, now, today, req, resp, ops, nreq, race>>

\* for (...; attempt < retries; ...) try { fn()
CallFn ==
    /\ retry.pc = "loop"
    /\ retry.attempt < retry.retries
    /\ retry' = CallFnOf(retry)
    /\ UNCHANGED Others

\* the promise of fn fulfils
FnFulfils ==
    /\ retry.pc = "await"
    /\ \E v \in FnValues : retry' = ReturnOf(retry, v)
    /\ UNCHANGED Others

\* the promise of fn rejects
FnRejects ==
    /\ retry.pc = "await"
    /\ \E e \in FnErrors : retry' = CatchOf(retry, e)
    /\ UNCHANGED Others

\* setTimeout calls back
TimerFires ==
    /\ retry.pc = "sleep"
    /\ retry' = WakeOf(retry)
    /\ UNCHANGED Others

\* the loop condition fails
LoopEnds ==
    /\ retry.pc = "loop"
    /\ retry.attempt >= retry.retries
    /\ retry' = ThrowLastOf(retry)
    /\ UNCHANGED Others

NextRetry == CallFn \/ FnFulfils \/ FnRejects \/ TimerFires \/ LoopEnds

\* every promise awaited settles and every timer fires
SpecRetry == InitRetry /\ [][NextRetry]_vars /\ WF_vars(NextRetry)

\* One POST /form-handler and one GET /lookup by the email of its body, the
\* store calls of the two in every order
RacePriors == {<<>>, handleFormPost(ValidSubmission, Epoch - 1, Day0).ops}

InitRace ==
    /\ \E prior \in RacePriors :
          /\ kv = ApplyOps(EmptyStore, "kv", prior)
          /\ r2 = ApplyOps(EmptyStore, "r2", prior)
    /\ now = Epoch
    /\ today = Day0
    /\ \E sub \in Submissions :
          /\ req = PostRequest(sub, Epoch)
          /\ race = Arrived(handleFormPost(sub, Epoch, Day0), ESS, sub.email.v)
    /\ resp = NoResponse
    /\ ops = <<>>
    /\ nreq = 0
    /\ retry = NoRetry

\* the POST makes its next put
PostPuts ==
    /\ race.pending # <<>>
    /\ kv' = ApplyOp(kv, "kv", Head(race.pending))
    /\ r2' = ApplyOp(r2, "r2", Head(race.pending))
    /\ ops' = Append(ops, Head(race.pending))
    /\ race' = [race EXCEPT !.pending = Tail(@)]
    /\ UNCHANGED <<now, today, req, resp, nreq, retry>>

\* the POST returns its response
PostReturns ==
    /\ race.pc # "idle"
    /\ race.pending = <<>>
    /\ resp = NoResponse
    /\ resp' = race.answer
    /\ nreq' = nreq + 1
    /\ UNCHANGED <<kv, r2, now, today, req, ops, retry, race>>

LookupLists ==
    /\ race.pc = "list"
    /\ race' = ListedOf(race, kv)
    /\ UNCHANGED <<kv, r2, now, today, req, resp, ops, nreq, retry>>

LookupReadsIndex ==
    /\ race.pc = "run"
    /\ \E i \in DOMAIN race.listed \ race.got :
          race' = IndexReadOf(race, kv, i)
    /\ UNCHANGED <<kv, r2, now, today, req, resp, ops, nreq, retry>>

LookupReadsMain ==
    /\ race.pc = "run"
    /\ race.got = DOMAIN race.listed
    /\ \E i \in DOMAIN race.listed \ (race.checked \cup race.deleting) :
          race' = MainReadOf(race, kv, i)
    /\ UNCHANGED <<kv, r2, now, today, req, resp, ops, nreq, retry>>

LookupDeletesOrphan ==
    /\ race.pc = "run"
    /\ \E i \in race.deleting :
          /\ kv' = ApplyOp(kv, "kv", KvDelete(race.listed[i]))
          /\ race' = OrphanDeletedOf(race, i)
    /\ UNCHANGED <<r2, now, today, req, resp, ops, nreq, retry>>

LookupReadsRecord ==
    /\ race.pc = "run"
    /\ race.got = DOMAIN race.listed
    /\ race.checked = DOMAIN race.listed
    /\ \E j \in DOMAIN race.valid \ race.fetched :
          race' = RecordReadOf(race, kv, j)
    /\ UNCHANGED <<kv, r2, now, today, req, resp, ops, nreq, retry>>

LookupReturns ==
    /\ race.pc = "run"
    /\ race.got = DOMAIN race.listed
    /\ race.checked = DOMAIN race.listed
    /\ race.fetched = DOMAIN race.valid
    /\ race' = [race EXCEPT !.pc = "done"]
    /\ UNCHANGED <<kv, r2, now, today, req, resp, ops, nreq, retry>>

NextRace ==
    \/ PostPuts \/ PostReturns \/ LookupLists \/ LookupReadsIndex
    \/ LookupReadsMain \/ LookupDeletesOrphan \/ LookupReadsRecord
    \/ LookupReturns

SpecRace == InitRace /\ [][NextRace]_vars

---------------------------------------------------------------------------
(* Vocabulary of the properties *)

\* a POST whose body parsed has been answered
Posted == req.op = "post" /\ nreq > 0 /\ ~ParseFails(req.sub)
Accepted == Posted /\ resp.status = 200

\* absent, falsy, or a whitespace-only string
Blank(x) ==
    \/ x.t = "undef"
    \/ x.t = "num" /\ x.v = <<"0">>
    \/ x.t = "str" /\ \A i \in DOMAIN x.v : IsSpace(x.v[i])

NonBlankString(x) == x.t = "str" /\ \E i \in DOMAIN x.v : ~IsSpace(x.v[i])

\* the whole signature string is absent, empty or whitespace
BlankSig(g) ==
    \/ g.t = "undef"
    \/ (\A i \in DOMAIN g.head : IsSpace(g.head[i])) /\ (g.len = 0 \/ g.ws)

RequiredPresent(sub) ==
    \A i \in DOMAIN requiredFields : NonBlankString(sub[requiredFields[i]])

\* the date of birth is a date not after `day`
BornBy(sub, day) == sub.dob.t = "str" /\ ~DateGreater(sub.dob.v, day)

\* the birthday of the given age has come by `day`
HasTurned(sub, years, day) ==
    ~DateGreater(<<sub.dob.v[1] + years, sub.dob.v[2], sub.dob.v[3]>>, day)

IsPng(g) == g.t = "str" /\ g.head = PNG_PREFIX
IsImage(g) == g.t = "str" /\ g.head \in {PNG_PREFIX, JPEG_PREFIX}
WithinLimit(g) == g.len * 3 <= 4 * 1048576
OverLimit(g) == g.len * 3 > 4 * 1048576

\* a signature the handler stores: text, or a decodable PNG or JPEG data URL
\* within the size limit
GoodSignature(g) ==
    /\ ~BlankSig(g)
    /\ \/ ~StartsWith(g.head, DATA_IMAGE)
       \/ IsImage(g) /\ g.ok /\ WithinLimit(g)

OptionalSignature(g) == SigFalsy(g) \/ GoodSignature(g)

PutsOn(name) == {i \in DOMAIN ops : ops[i].store = name /\ ops[i].op = "put"}

SizeAnswers ==
    {<<"Participant signature image too large">>,
     <<"Parent signature image too large">>}

\* trim, lower-case, and '_' for every character outside [a-z0-9],
\* character by character
Sanitized(s) ==
    LET kept == {i \in DOMAIN s : ~IsSpace(s[i])}
        lo == CHOOSE i \in kept : \A j \in kept : i <= j
        hi == CHOOSE i \in kept : \A j \in kept : j <= i
        letter(c) == \E n \in 1..26 : c \in {LowerCase[n], UpperCase[n]}
        lower(c) == LowerCase[CHOOSE n \in 1..26 :
                                  c \in {LowerCase[n], UpperCase[n]}]
        digit(c) == \E n \in 1..10 : c = DigitChar[n]
    IN  IF kept = {} THEN <<>>
        ELSE [i \in 1..(hi - lo + 1) |->
                 LET c == s[lo + i - 1]
                 IN  IF letter(c) THEN lower(c)
                     ELSE IF digit(c) THEN c
                     ELSE "_"]

ExpectedMainKey(sub, t) ==
    sub.rsg1.v \o <<"_">> \o Sanitized(sub.firstName.v) \o <<"_">>
        \o Sanitized(sub.lastName.v) \o <<"_">> \o NumToString(t)

ExpectedIndexKey(sub, t) ==
    sub.rsg1.v \o <<"_","e","m","a","i","l","_">> \o Sanitized(sub.email.v)
        \o <<"_">> \o NumToString(t)

HasEntry(results, k, data) ==
    \E i \in DOMAIN results : results[i].key = k /\ results[i].data = data

---------------------------------------------------------------------------
(* Properties *)

\* C1: after POST /form-handler answers 200 with id k for a submission with
\* email e and rsg1 r, a GET /lookup?rsg=r&input=e that follows directly
\* answers 200 with an entry whose key is k and whose data is the stored
\* record (when at most 50 index entries share the email prefix).
C1_SubmitThenLookupByEmail ==
    [][(/\ Accepted
        /\ req'.op = "lookup"
        /\ req'.rsg = req.sub.rsg1
        /\ req'.input = req.sub.email
        /\ Cardinality(KeysWithPrefix(kv,
               req.sub.rsg1.v \o <<"_","e","m","a","i","l","_">>
                   \o Sanitized(req.sub.email.v) \o <<"_">>)) <= 50)
       => (/\ resp'.status = 200
           /\ resp.id \in DOMAIN kv
           /\ HasEntry(resp'.results, resp.id, kv[resp.id].data))]_vars

\* C2: once a POST /form-handler request has returned, every non-null
\* signature path of a record in the key-value store names an object of the
\* blob store.
C2_BlobReferentialIntegrity ==
    \A k \in DOMAIN kv :
        kv[k].kind = "json" =>
            /\ kv[k].data.paths.signatureParticipant \in DOMAIN r2 \cup {Null}
            /\ kv[k].data.paths.signatureParent \in DOMAIN r2 \cup {Null}

\* C3: a submission whose required fields and email are valid, whose date of
\* birth makes the participant younger than 18, and that lacks fullNameParent
\* or signatureParent is answered 400 'Missing required field: <field>',
\* naming the first of the two that is missing.
C3_MinorsRequireParentFields ==
    (/\ Posted
     /\ RequiredPresent(req.sub)
     /\ emailRegex(req.sub.email.v)
     /\ BornBy(req.sub, today)
     /\ ~HasTurned(req.sub, 18, today)
     /\ (Blank(req.sub.fullNameParent) \/ BlankSig(req.sub.signatureParent)))
    => /\ resp.status = 400
       /\ resp.body = <<"Missing required field: ",
                        IF Blank(req.sub.fullNameParent)
                        THEN "fullNameParent" ELSE "signatureParent">>

\* what C4 requires of an adult submission, as stated
AdultAsStated(sub, day) ==
    /\ \A i \in DOMAIN requiredFields :
          sub[requiredFields[i]].t = "str" /\ sub[requiredFields[i]].v # <<>>
    /\ emailRegex(sub.email.v)
    /\ BornBy(sub, day)
    /\ HasTurned(sub, 18, day)
    /\ sub.fullNameParticipant.t = "str" /\ sub.fullNameParticipant.v # <<>>
    /\ IsPng(sub.signatureParticipant)
    /\ WithinLimit(sub.signatureParticipant)

C6_RequiredFields ==
    \A i \in DOMAIN requiredFields :
        (/\ Posted
         /\ Blank(req.sub[requiredFields[i]])
         /\ \A j \in 1..(i - 1) : ~Blank(req.sub[requiredFields[j]]))
        => /\ resp.status = 400
           /\ resp.body = <<"Missing required field: ", requiredFields[i]>>
           /\ PutsOn("kv") = {}
           /\ PutsOn("r2") = {}
           /\ kv = EmptyStore
           /\ r2 = EmptyStore

C6_Witness ==
    /\ Posted
    /\ ~Blank(req.sub.preferredLanguage)
    /\ req.sub.firstName = Str(<<" "," ">>)
    /\ Blank(req.sub.email)
    /\ Blank(req.sub.emergencyPhone)
    /\ resp.body = <<"Missing required field: ", "firstName">>

\* C7: an accepted submission at clock value t puts the index entry
\* r_email_sanitize(email)_t with the main key as its value, then its record
\* under the main key r_sanitize(firstName)_sanitize(lastName)_t, and
\* returns the main key as id; sanitize trims, lower-cases and replaces
\* every character outside [a-z0-9] by '_'.
C7_KeyDerivation ==
    Accepted =>
        LET main == ExpectedMainKey(req.sub, req.at)
            index == ExpectedIndexKey(req.sub, req.at)
        IN  /\ resp.id = main
            /\ PutsOn("kv") = {1, 2}
            /\ ops[1].key = index
            /\ ops[1].val = KeyValue(main)
            /\ ops[2].key = main
            /\ ops[2].val.kind = "json"
            /\ main \in DOMAIN kv
            /\ kv[main] = ops[2].val

C7_Witness ==
    /\ Accepted
    /\ req.sub.firstName.v = <<" ","a","-","B"," ">>
    /\ req.sub.email.v = <<"J",".","D","@","x",".","i","o">>
    /\ req.at = 10
    /\ resp.id = <<"E","S","S","_","a","_","b","_","d","o","e","_","1","0">>
    /\ <<"E","S","S","_","e","m","a","i","l","_",
         "j","_","d","_","x","_","i","o","_","1","0">> \in DOMAIN kv

\* C8: after POST /form-handler answers 200 with id k for a submission with
\* firstName F, lastName L and rsg1 r, a GET /lookup?rsg=r&input='F L' that
\* follows directly answers 200 with an entry whose key is k (when at most
\* 50 keys share the prefix).
C8_SubmitThenLookupByName ==
    [][(/\ Accepted
        /\ req'.op = "lookup"
        /\ req'.rsg = req.sub.rsg1
        /\ req'.input = Str(FullName(req.sub))
        /\ Cardinality(KeysWithPrefix(kv,
               req.sub.rsg1.v \o <<"_">> \o Sanitized(req.sub.firstName.v)
                   \o <<"_">> \o Sanitized(req.sub.lastName.v) \o <<"_">>))
             <= 50)
       => (/\ resp'.status = 200
           /\ \E i \in DOMAIN resp'.results :
                 resp'.results[i].key = resp.id)]_vars

\* the request passes every check that does not concern the size or the
\* encoding of a signature
ReachesUpload(sub, day) ==
    /\ RequiredPresent(sub)
    /\ emailRegex(sub.email.v)
    /\ sub.rsg1.v \in RSG_OPT_IN
    /\ sub.dob.t = "undef" \/ BornBy(sub, day)
    /\ NonBlankString(sub.fullNameParticipant)
    /\ ~BlankSig(sub.signatureParticipant)
    /\ StartsWith(sub.signatureParticipant.head, DATA_IMAGE)
          => IsImage(sub.signatureParticipant)
    /\ StartsWith(sub.signatureParent.head, DATA_IMAGE)
          => IsImage(sub.signatureParent)

C9_WitnessParticipant ==
    /\ Posted
    /\ req.sub.signatureParticipant = Sig(PNG_PREFIX, 1398102, FALSE, TRUE)
    /\ resp.body = <<"Participant signature image too large">>

\* a string that is not empty and does not start with data:image/
TextSignature(g) ==
    g.t = "str" /\ ~(g.head = <<>> /\ g.len = 0)
        /\ ~StartsWith(g.head, DATA_IMAGE)

\* valid apart from the participant's signature
OtherwiseValid(sub, day) ==
    /\ RequiredPresent(sub)
    /\ emailRegex(sub.email.v)
    /\ sub.rsg1.v \in RSG_OPT_IN
    /\ sub.dob.t = "undef" \/ BornBy(sub, day)
    /\ NonBlankString(sub.fullNameParticipant)
    /\ OptionalSignature(sub.signatureParent)

TextSignatureKept ==
    /\ resp.status = 200
    /\ resp.id \in DOMAIN kv
    /\ kv[resp.id].kind = "json"
    /\ kv[resp.id].data.sub.signatureParticipant = req.sub.signatureParticipant
    /\ kv[resp.id].data.paths.signatureParticipant = Null
    /\ \A i \in PutsOn("r2") :
          ops[i].key = kv[resp.id].data.paths.signatureParent

C11_UnparseableRequest ==
    [][(req'.op = "post" /\ nreq' # nreq /\ ParseFails(req'.sub))
        => /\ resp'.status = 400
           /\ resp'.body[1] = "Bad Request: "
           /\ ops' = <<>>
           /\ kv' = kv
           /\ r2' = r2]_vars

C11_Witness ==
    /\ req.op = "post"
    /\ req.sub = RawBody(<<>>)
    /\ resp.status = 400
    /\ kv # EmptyStore
    /\ r2 # EmptyStore

\* every required field is present: not absent, falsy or whitespace-only
Present(sub) == \A i \in DOMAIN requiredFields : ~Blank(sub[requiredFields[i]])

\* a non-empty text without white space or '@'
Plain(t) == t # <<>> /\ \A k \in DOMAIN t : ~IsSpace(t[k]) /\ t[k] # "@"

\* <no space or @>+ '@' <no space or @>+ '.' <no space or @>+
EmailShape(s) ==
    \E i \in DOMAIN s : \E j \in DOMAIN s :
        /\ i < j /\ s[i] = "@" /\ s[j] = "."
        /\ Plain(SubSeq(s, 1, i - 1))
        /\ Plain(SubSeq(s, i + 1, j - 1))
        /\ Plain(SubSeq(s, j + 1, Len(s)))

InvalidEmailAnswer ==
    /\ resp.status = 400
    /\ resp.body = <<"Invalid email format">>
    /\ ops = <<>>
    /\ kv = EmptyStore
    /\ r2 = EmptyStore

\* C12 as stated: every submission whose required fields are present and
\* whose email does not have the shape local@domain.tld is answered 400
\* 'Invalid email format' and nothing is written.
C12_EmailFormat_AsStated ==
    (/\ Posted
     /\ Present(req.sub)
     /\ ~(req.sub.email.t = "str" /\ EmailShape(req.sub.email.v)))
    => InvalidEmailAnswer

\* C12, amended: the same answer for every submission whose required fields
\* are present and whose email is a string that does not have the shape.
C12_EmailFormat ==
    (/\ Posted
     /\ Present(req.sub)
     /\ req.sub.email.t = "str"
     /\ ~EmailShape(req.sub.email.v))
    => InvalidEmailAnswer

C12_Witness ==
    /\ Posted
    /\ Present(req.sub)
    /\ req.sub.email.v = <<"a","@","b","c">>
    /\ req.sub.dob.v = <<2000, 1, 1>>
    /\ resp.body = <<"Invalid email format">>

\* the day number of a date <<year, month, day>> in the order of the calendar
DayNumber(d) == d[1] * 10000 + d[2] * 100 + d[3]

\* C13: every submission whose required fields and email are valid and whose
\* dob is a date later than today is answered 400 'Date of birth cannot be in
\* the future', and nothing is written to either store.
C13_FutureDateOfBirth ==
    (/\ Posted
     /\ Present(req.sub)
     /\ req.sub.email.t = "str"
     /\ EmailShape(req.sub.email.v)
     /\ req.sub.dob.t = "str"
     /\ DayNumber(req.sub.dob.v) > DayNumber(today))
    => /\ resp.status = 400
       /\ resp.body = <<"Date of birth cannot be in the future">>
       /\ ops = <<>>
       /\ kv = EmptyStore
       /\ r2 = EmptyStore

C13_Witness ==
    /\ Posted
    /\ req.sub.dob.v = <<2025, 6, 16>>
    /\ today = <<2025, 6, 15>>
    /\ req.sub.rsg1.v = ESS
    /\ resp.body = <<"Date of birth cannot be in the future">>

Swept(op) == nreq > 0 /\ req.op = op

MigrationOps == {"migrate-keys", "migrate-base64-to-r2", "migrate-ess-prefix"}

\* C15: with mode absent or 'dry-run', a request to /migrate-keys,
\* /migrate-base64-to-r2 or /migrate-ess-prefix makes no put and no delete,
\* and both stores are after the sweep what they were before it, whatever
\* they held.
C15_DryRunMakesNoChanges ==
    [][(/\ nreq' # nreq
        /\ req'.op \in MigrationOps
        /\ req'.mode \in {"", "dry-run"})
       => /\ ops' = <<>>
          /\ kv' = kv
          /\ r2' = r2]_vars

\* a dry run of /migrate-keys over a store with a key to migrate whose blob
\* is there to copy
C15_Witness ==
    /\ Swept("migrate-keys")
    /\ req.mode = ""
    /\ req.fails = {}
    /\ resp.status = 200
    /\ resp.results.mode = "dry-run"
    /\ \E i \in DOMAIN resp.results.migrated :
          /\ resp.results.migrated[i].oldKey = OLD1
          /\ resp.results.migrated[i].copiedR2 # <<>>
          /\ resp.results.migrated[i].updatedSignaturePaths.signatureParticipant
                = NEW1 \o PNG_SUFFIX
    /\ NEW1 \notin DOMAIN kv

\* the keys of the old format first_last_email_timestamp
OldFormat(key) == keyRegex(key).ok

\* the blob paths a stored record names
BlobsOf(value) ==
    {value.data.paths[f] : f \in {"signatureParticipant", "signatureParent"}}
        \ {Null}

\* the key is in the skipped list of the report with the reason
SkippedFor(report, key, reason) ==
    \E i \in DOMAIN report.skipped :
        report.skipped[i] = [key |-> key, reason |-> reason]

\* no operation of the request names the key or a blob of its record
Untouched(key, value, os) ==
    \A i \in DOMAIN os :
        /\ ~(os[i].store = "kv" /\ os[i].key = key)
        /\ ~(os[i].store = "r2" /\ os[i].key \in BlobsOf(value))

\* C16: /migrate-keys?mode=delete deletes a key of the old format only if
\* its new key first_last_timestamp holds a value; an old-format key whose
\* new key holds none is reported in skipped with the reason 'no new key for
\* deletion', and neither it nor the blobs of its record are touched.
C16_DeleteOnlyMigrated ==
    [][(/\ nreq' # nreq
        /\ req'.op = "migrate-keys"
        /\ req'.mode = "delete")
       => /\ \A i \in DOMAIN ops' :
                (ops'[i].store = "kv" /\ ops'[i].op = "delete")
                    => /\ OldFormat(ops'[i].key)
                       /\ NewKeyOf(keyRegex(ops'[i].key)) \in DOMAIN kv
          /\ \A k \in DOMAIN kv \ DOMAIN kv' :
                OldFormat(k) /\ NewKeyOf(keyRegex(k)) \in DOMAIN kv
          /\ \A k \in DOMAIN kv :
                (OldFormat(k) /\ NewKeyOf(keyRegex(k)) \notin DOMAIN kv)
                    => /\ resp'.status = 200
                          => SkippedFor(resp'.results, k,
                                        "no new key for deletion")
                       /\ Untouched(k, kv[k], ops')
                       /\ k \in DOMAIN kv' /\ kv'[k] = kv[k]
                       /\ \A b \in BlobsOf(kv[k]) \cap DOMAIN r2 :
                             b \in DOMAIN r2' /\ r2'[b] = r2[b]]_vars

\* a delete sweep that removed one old key, whose new key was there, with
\* its blob, and skipped another, whose new key was not
C16_Witness ==
    /\ Swept("migrate-keys")
    /\ req.mode = "delete"
    /\ resp.status = 200
    /\ \E i \in DOMAIN ops : ops[i] = KvDelete(OLD1)
    /\ \E i \in DOMAIN ops : ops[i] = R2Delete(OLD1 \o PNG_SUFFIX)
    /\ NEW1 \in DOMAIN kv
    /\ OLD1 \notin DOMAIN kv
    /\ OLD2 \in DOMAIN kv
    /\ NEW2 \notin DOMAIN kv
    /\ SkippedFor(resp.results, OLD2, "no new key for deletion")

\* the log lines the sweep of /migrate-keys writes when a store call of the
\* kind throws
FailureLogs(call) ==
    CASE call = "kv.get" ->
             {"Error checking existence of newKey", "Error fetching oldKey"}
      [] call = "kv.put" -> {"Failed to write new KV"}
      [] call = "kv.delete" -> {"Failed to delete oldKey"}
      [] call = "r2.get" -> {"Failed to copy R2 object"}
      [] call = "r2.put" -> {"Failed to copy R2 object"}
      [] call = "r2.delete" -> {"Failed to delete R2 object"}
      [] OTHER -> {}

\* the report records the failure of a call of that kind
Recorded(report, call) ==
    \E i \in DOMAIN report.logs : report.logs[i][1] \in FailureLogs(call)

\* the key was taken up by the loop: the report has its first log line
Processed(report, key) ==
    \E i \in DOMAIN report.logs :
        /\ report.logs[i][2] = key
        /\ report.logs[i][1] \in
               {"Matches", "Skipped key: does not match migration pattern"}

\* the key is in the migrated list or in the skipped list of the report
Accounted(report, key) ==
    \/ \E i \in DOMAIN report.migrated : report.migrated[i].oldKey = key
    \/ \E i \in DOMAIN report.skipped : report.skipped[i].key = key

ListFails(fs) == <<"kv.list", NoList>> \in fs

\* C17: during /migrate-keys a get, put or delete on either store that
\* fails does not end the sweep: the failure is in logs or in skipped, every
\* key listed is still processed, and the answer is 200 with the report;
\* only a failure of the listing ends the sweep, with status 500.
C17_FailuresDoNotAbort ==
    [][(nreq' # nreq /\ req'.op = "migrate-keys")
       => /\ ListFails(req'.fails)
             => /\ resp'.status = 500
                /\ resp'.body = <<"KV list error: ">>
                /\ ops' = <<>>
          /\ ~ListFails(req'.fails)
             => /\ resp'.status = 200
                /\ resp'.results.mode = ModeOf(req'.mode)
                /\ resp'.results.totalScanned = Cardinality(DOMAIN kv)
                /\ \A k \in DOMAIN kv :
                      /\ Processed(resp'.results, k)
                      /\ OldFormat(k) => Accounted(resp'.results, k)
                /\ \A f \in req'.fails :
                      (migrateKeys(req'.mode, kv, r2, req'.fails \ {f})
                           # [resp |-> resp', ops |-> ops'])
                          => Recorded(resp'.results, f[1])]_vars

\* a commit sweep in which the writes of the first old key and the blob copy
\* of the second failed: the first is in skipped, the second was migrated
C17_Witness ==
    /\ Swept("migrate-keys")
    /\ req.mode = "commit"
    /\ req.fails = {<<"kv.put", NEW2>>, <<"r2.put", NEW1 \o PNG_SUFFIX>>}
    /\ resp.status = 200
    /\ resp.results.totalScanned = 6
    /\ SkippedFor(resp.results, OLD2, "failed to write new KV")
    /\ Recorded(resp.results, "r2.put")
    /\ \E i \in DOMAIN resp.results.migrated :
          resp.results.migrated[i].oldKey = OLD1
    /\ \E i \in DOMAIN ops : ops[i] = KvPut(INDEX1, KeyValue(NEW1))

\* the number of attempts the caller of withRetry allows
Allowed == IF retry.arg.given THEN retry.arg.n ELSE 3

\* the calls of fn made so far
Calls18 == Len(retry.outcomes) + retry.inflight

Retrying == retry.pc # "idle" /\ Allowed >= 1

RetryDone == retry.pc \in {"returned", "thrown"}

RetryContract ==
    /\ retry.inflight \in {0, 1}
    /\ Calls18 <= Allowed
    /\ \A i \in DOMAIN retry.outcomes :
          retry.outcomes[i].ok
              => /\ i = Len(retry.outcomes)
                 /\ retry.pc = "returned"
                 /\ retry.inflight = 0
                 /\ retry.settled = retry.outcomes[i]
    /\ retry.pc = "returned"
          => /\ retry.outcomes # <<>>
             /\ retry.outcomes[Len(retry.outcomes)].ok
    /\ \A i \in DOMAIN retry.waits : retry.waits[i] = 500 * i
    /\ Len(retry.waits) =
           IF retry.pc = "loop" THEN Calls18 ELSE Calls18 - 1
    /\ retry.pc = "thrown"
          => /\ Len(retry.outcomes) = Allowed
             /\ \A i \in DOMAIN retry.outcomes : ~retry.outcomes[i].ok
             /\ retry.settled = retry.outcomes[Allowed]

C18_WitnessSuccess ==
    /\ retry.arg = RetriesArg(4)
    /\ retry.pc = "returned"
    /\ Len(retry.outcomes) = 3
    /\ retry.waits = <<500, 1000>>
    /\ retry.settled = Fulfilled("v2")

\* C19: POST /delete with the body {key} answers with a success status and
\* removes the record stored under the key, so that no lookup returns it
\* afterwards.
C19_DeleteRemovesRecord ==
    [][(/\ nreq' # nreq
        /\ req'.op = "delete"
        /\ req'.input.v \in DOMAIN kv)
       => /\ resp'.status \in 200..299
          /\ req'.input.v \notin DOMAIN kv']_vars

\* C20: a request that handleFormPost answers with status 400 has made no
\* put on the key-value store and no put on the blob store.
C20_RejectionWritesNothing ==
    (nreq > 0 /\ req.op = "post" /\ resp.status = 400)
        => PutsOn("kv") = {} /\ PutsOn("r2") = {}

\* the POST and the lookup that ran with it have both returned
BothReturned == race.pc = "done" /\ resp # NoResponse

\* C21: when a POST /form-handler answered 200 and a GET /lookup by the same
\* email ran while it was storing, then after both have returned the email
\* index entry of the submission is in the key-value store and its value is
\* the main key, whatever the order of their store calls (for a submission
\* whose main key is not its index key).
C21_LookupKeepsNewIndexEntry ==
    (/\ BothReturned
     /\ resp.status = 200
     /\ ExpectedIndexKey(req.sub, Epoch) # resp.id)
        => /\ ExpectedIndexKey(req.sub, Epoch) \in DOMAIN kv
           /\ kv[ExpectedIndexKey(req.sub, Epoch)] = KeyValue(resp.id)

\* the keys of the email index
IsIndexKey(key) == StartsWith(key, EMAIL_PREFIX) \/ Includes(key, EMAIL_INFIX)

\* every entry of the email index names a main record of the store
IndexIntact(store) ==
    \A k \in DOMAIN store :
        IsIndexKey(k)
            => /\ store[k].kind = "key"
               /\ store[k].key \in DOMAIN store
               /\ store[store[k].key].kind = "json"

\* C22: when every email index entry names an existing main record before
\* POST /migrate-ess-prefix?mode=commit, then after a sweep without store
\* failures every index entry under the ESS prefix names an existing main
\* record.
C22_EssKeepsIndexIntact ==
    [][(/\ nreq' # nreq
        /\ req'.op = "migrate-ess-prefix"
        /\ req'.mode = "commit"
        /\ req'.fails = {}
        /\ IndexIntact(kv))
       => \A k \in DOMAIN kv' :
             (StartsWith(k, ESS_KEY_PREFIX) /\ IsIndexKey(k))
                 => /\ kv'[k].kind = "key"
                    /\ kv'[k].key \in DOMAIN kv'
                    /\ kv'[kv'[k].key].kind = "json"]_vars

\* C23: when an accepted POST /form-handler is followed by another accepted
\* one, the two are given different main keys, and the record of the first is
\* still stored under its id as it was, also when the two carry the same
\* name and are accepted at the same clock value.
C23_NoOverwrite ==
    [][(/\ Accepted
        /\ nreq' # nreq
        /\ req'.op = "post"
        /\ resp'.status = 200)
       => /\ resp'.id # resp.id
          /\ resp.id \in DOMAIN kv'
          /\ kv'[resp.id] = kv[resp.id]]_vars

\* the old-format keys of the store that hold a JSON record
OldRecords(store) == {k \in DOMAIN store : OldFormat(k) /\ store[k].kind = "json"}

\* the store holds the record under the new key of the old key, with the
\* same fields, and the index entry that names it
MigratedTo(store, old, value) ==
    /\ NewKeyOf(keyRegex(old)) \in DOMAIN store
    /\ store[NewKeyOf(keyRegex(old))].kind = "json"
    /\ store[NewKeyOf(keyRegex(old))].data.sub = value.data.sub
    /\ EmailIndexKeyOf(keyRegex(old)) \in DOMAIN store
    /\ store[EmailIndexKeyOf(keyRegex(old))]
           = KeyValue(NewKeyOf(keyRegex(old)))

\* C24: POST /migrate-keys?mode=commit without store failures leaves every
\* JSON record of an old-format key under its new key first_last_timestamp
\* with the same fields, with the index entry email_<email>_<timestamp>
\* naming it, distinct old records under distinct new keys; and the
\* POST /migrate-keys?mode=delete that follows changes no key but the old
\* ones, so that no record is lost.
C24_NoRecordLost ==
    [][/\ (/\ nreq' # nreq
           /\ req'.op = "migrate-keys"
           /\ req'.mode = "commit"
           /\ req'.fails = {})
          => /\ \A k \in OldRecords(kv) : MigratedTo(kv', k, kv[k])
             /\ \A k1, k2 \in OldRecords(kv) :
                   k1 # k2
                       => NewKeyOf(keyRegex(k1)) # NewKeyOf(keyRegex(k2))
       /\ (/\ nreq' # nreq
           /\ req.op = "migrate-keys" /\ req.mode = "commit"
           /\ req'.op = "migrate-keys" /\ req'.mode = "delete"
           /\ req'.fails = {})
          => \A k \in DOMAIN kv :
                ~OldFormat(k) => k \in DOMAIN kv' /\ kv'[k] = kv[k]]_vars

\* the step is a GET /lookup with rsg and an input that is an email
LookupByEmailStep ==
    /\ nreq' # nreq
    /\ req'.op = "lookup"
    /\ ~Falsy(req'.rsg) /\ ~Falsy(req'.input)
    /\ emailRegex(req'.input.v)

\* the keys the lookup lists for the email
ListedFor(store, rsg, input) ==
    {k \in DOMAIN store :
        StartsWith(k, rsg.v \o <<"_","e","m","a","i","l","_">>
                          \o Sanitized(input.v) \o <<"_">>)}

\* the value of the entry names a key that holds nothing
Orphan(store, k) == store[k].kind = "key" /\ store[k].key \notin DOMAIN store

\* C25: a GET /lookup by email deletes exactly the listed index entries whose
\* value names a main key without a value; it deletes no index entry whose
\* main record exists and no main record, changes no value, and returns no
\* entry for a deleted orphan.
C25_OrphanCleanupExact ==
    [][LookupByEmailStep
       => /\ \A k \in DOMAIN kv :
                k \notin DOMAIN kv'
                    <=> /\ k \in ListedFor(kv, req'.rsg, req'.input)
                        /\ Orphan(kv, k)
          /\ \A k \in DOMAIN kv : kv[k].kind = "json" => k \in DOMAIN kv'
          /\ \A k \in DOMAIN kv' : k \in DOMAIN kv /\ kv'[k] = kv[k]
          /\ \A i \in DOMAIN resp'.results :
                /\ resp'.results[i].key \in DOMAIN kv'
                /\ \A k \in DOMAIN kv \ DOMAIN kv' :
                      resp'.results[i].key # kv[k].key]_vars

\* the words of a full name 'F L'
NameParts(input) == SplitSpaces(Trim(input.v))

\* C26: every entry GET /lookup returns for a full name 'F L' is a record
\* whose sanitized firstName and lastName are those of F and L, and every
\* entry it returns for an email is a record whose sanitized email is that
\* of the input.
C26_LookupPrecision ==
    [][(/\ nreq' # nreq
        /\ req'.op = "lookup"
        /\ resp'.status = 200)
       => \A i \in DOMAIN resp'.results :
             IF emailRegex(req'.input.v)
             THEN Sanitized(resp'.results[i].data.sub.email.v)
                      = Sanitized(req'.input.v)
             ELSE /\ Sanitized(resp'.results[i].data.sub.firstName.v)
                         = Sanitized(NameParts(req'.input)[1])
                  /\ Sanitized(resp'.results[i].data.sub.lastName.v)
                         = Sanitized(NameParts(req'.input)[2])]_vars

\* the old keys of the migrated list
MigratedKeys(report) == [i \in DOMAIN report.migrated |-> report.migrated[i].oldKey]

NoRepeat(keys) == \A i, j \in DOMAIN keys : keys[i] = keys[j] => i = j

\* C27: in the report of POST /migrate-ess-prefix every listed key is counted
\* once: totalScanned = totalMigrated + totalSkipped, the two totals are the
\* lengths of migrated and skipped, and no key is twice in migrated or both
\* in migrated and in skipped.
C27_EssAccounting ==
    (Swept("migrate-ess-prefix") /\ resp.status = 200)
        => /\ resp.results.totalScanned
                  = resp.results.totalMigrated + resp.results.totalSkipped
           /\ resp.results.totalMigrated = Len(resp.results.migrated)
           /\ resp.results.totalSkipped = Len(resp.results.skipped)
           /\ NoRepeat(MigratedKeys(resp.results))
           /\ \A i \in DOMAIN resp.results.migrated :
                 \A j \in DOMAIN resp.results.skipped :
                     resp.results.migrated[i].oldKey
                         # resp.results.skipped[j].key

SignatureNames == {"signatureParticipant", "signatureParent"}

\* the sweep took the inline signature of the field out of the record, or
\* gave the record a path for it
Dropped(before, after, f) == after.data.sub[f] # before.data.sub[f]
Pathed(before, after, f) == after.data.paths[f] # before.data.paths[f]

\* C28: POST /migrate-base64-to-r2?mode=commit takes an inline signature out
\* of a stored record, and gives the record a path for it, only when it put
\* the blob of that signature under that path in this run; when the put
\* fails the record keeps the inline signature and gets no path for it.
C28_DropOnlyAfterUpload ==
    [][(/\ nreq' # nreq
        /\ req'.op = "migrate-base64-to-r2"
        /\ req'.mode = "commit")
       => \A k \in DOMAIN kv : \A f \in SignatureNames :
             kv[k].kind = "json"
                 => /\ k \in DOMAIN kv' /\ kv'[k].kind = "json"
                    /\ (Dropped(kv[k], kv'[k], f) \/ Pathed(kv[k], kv'[k], f))
                          => /\ Dropped(kv[k], kv'[k], f)
                             /\ Pathed(kv[k], kv'[k], f)
                             /\ kv'[k].data.sub[f] = NoSig
                             /\ kv'[k].data.paths[f] \in DOMAIN r2'
                             /\ ~Throws(req'.fails, "r2.put",
                                        kv'[k].data.paths[f])
                             /\ \E i \in DOMAIN ops' :
                                   ops'[i] = R2Put(kv'[k].data.paths[f])
                    /\ Throws(req'.fails, "r2.put",
                              R2PathOf(k, f, kv[k].data.sub[f]))
                          => /\ kv'[k].data.sub[f] = kv[k].data.sub[f]
                             /\ kv'[k].data.paths[f] = kv[k].data.paths[f]]_vars

\* a commit sweep in which the upload of the parent signature failed: the
\* participant signature went to the blob store, the parent signature is
\* still in the record
C28_Witness ==
    /\ Swept("migrate-base64-to-r2")
    /\ req.mode = "commit"
    /\ req.fails = {<<"r2.put", R2PathOf(OLD2, "signatureParent", SmallJpeg)>>}
    /\ OLD2 \in DOMAIN kv
    /\ kv[OLD2].data.sub.signatureParticipant = NoSig
    /\ kv[OLD2].data.paths.signatureParticipant = OLD2 \o PNG_SUFFIX
    /\ OLD2 \o PNG_SUFFIX \in DOMAIN r2
    /\ kv[OLD2].data.sub.signatureParent = SmallJpeg
    /\ kv[OLD2].data.paths.signatureParent = Null
    /\ R2PathOf(OLD2, "signatureParent", SmallJpeg) \notin DOMAIN r2

=============================================================================
